---- MODULE Spec2Model ----
(***************************************************************************)
(* TON (Text Object Notation): the lexer, the recursive-descent parser,    *)
(* the document model, the serializer and the schema validator of          *)
(* devpossible_ton, as operators over texts (sequences of one-character    *)
(* strings), with the state machines that apply them to bounded inputs.    *)
(***************************************************************************)
EXTENDS Integers, Sequences, FiniteSets, TLC

VARIABLES pc, text, lexed, doc, opts, out, parsed, out2, parsed2, out3,
          alt, vschema, vresult

vars == <<pc, text, lexed, doc, opts, out, parsed, out2, parsed2, out3,
          alt, vschema, vresult>>

(***************************************************************************)
(* Characters                                                              *)
(***************************************************************************)
NUL == "NUL"
DQ == "\""
SQ == "'"
BQ == "BQ"
BS == "\\"
NL == "\n"

Digits == {"0", "1", "2", "3", "4", "5", "6", "7", "8", "9"}
LowerHex == {"a", "b", "c", "d", "e", "f"}
UpperHex == {"A", "B", "C", "D", "E", "F"}
Lower == LowerHex \cup {"g", "h", "i", "j", "k", "l", "m", "n", "o", "p", "q",
                        "r", "s", "t", "u", "v", "w", "x", "y", "z"}
Upper == UpperHex \cup {"G", "H", "I", "J", "K", "L", "M", "N", "O", "P", "Q",
                        "R", "S", "T", "U", "V", "W", "X", "Y", "Z"}
DigitSeq == <<"0", "1", "2", "3", "4", "5", "6", "7", "8", "9">>
HexSeq == <<"0", "1", "2", "3", "4", "5", "6", "7", "8", "9",
            "a", "b", "c", "d", "e", "f">>
UpperHexSeq == <<"0", "1", "2", "3", "4", "5", "6", "7", "8", "9",
                 "A", "B", "C", "D", "E", "F">>
StripChars == {" ", "\t", "\r", "\f", "\n"}

IsDigit(c) == c \in Digits
IsHexDigit(c) == IsDigit(c) \/ c \in LowerHex \/ c \in UpperHex
IsAlpha(c) == c \in Lower \/ c \in Upper
IsAlphanumeric(c) == IsAlpha(c) \/ IsDigit(c)
IsUpper(c) == c \in Upper

HexVal(c) == CHOOSE i \in 0..15 : HexSeq[i + 1] = c \/ UpperHexSeq[i + 1] = c

Min(a, b) == IF a < b THEN a ELSE b
Abs(n) == IF n < 0 THEN 0 - n ELSE n

RECURSIVE Pow10(_)
Pow10(k) == IF k <= 0 THEN 1 ELSE 10 * Pow10(k - 1)

RECURSIVE Concat(_)
Concat(ss) == IF ss = <<>> THEN <<>> ELSE Head(ss) \o Concat(Tail(ss))

RECURSIVE Join(_, _)
Join(sep, ss) ==
    IF ss = <<>> THEN <<>>
    ELSE IF Len(ss) = 1 THEN ss[1]
    ELSE ss[1] \o sep \o Join(sep, Tail(ss))

RECURSIVE Repeat(_, _)
Repeat(s, k) == IF k <= 0 THEN <<>> ELSE s \o Repeat(s, k - 1)

(***************************************************************************)
(* Host values: what a token or a value node holds.  One record shape for  *)
(* every host type; vt names the type.  A number is m * 10^e, m not a      *)
(* multiple of ten unless zero; isint tells a host int from a float.       *)
(***************************************************************************)
InfExp == 100000

PNone == [vt |-> "none", s |-> <<>>, m |-> 0, e |-> 0, isint |-> FALSE,
          b |-> FALSE, l |-> <<>>]
PStr(s) == [PNone EXCEPT !.vt = "str", !.s = s]
PBool(b) == [PNone EXCEPT !.vt = "bool", !.b = b]
PList(l) == [PNone EXCEPT !.vt = "list", !.l = l]

RECURSIVE NormNum(_, _)
NormNum(m, e) ==
    IF m = 0 THEN <<0, 0>>
    ELSE IF m % 10 = 0 THEN NormNum(m \div 10, e + 1)
    ELSE <<m, e>>

PFloat(m, e) ==
    LET n == NormNum(m, e)
    IN  [PNone EXCEPT !.vt = "num", !.m = n[1], !.e = n[2]]
PInt(k) ==
    LET n == NormNum(k, 0)
    IN  [PNone EXCEPT !.vt = "num", !.m = n[1], !.e = n[2], !.isint = TRUE]
PInf(sign) == [PNone EXCEPT !.vt = "num", !.m = sign, !.e = InfExp]

RECURSIVE DigitsOf(_)
DigitsOf(n) ==
    IF n < 10 THEN <<DigitSeq[n + 1]>>
    ELSE DigitsOf(n \div 10) \o <<DigitSeq[(n % 10) + 1]>>

RECURSIVE DigitsVal(_, _)
DigitsVal(ds, acc) ==
    IF ds = <<>> THEN acc
    ELSE DigitsVal(Tail(ds), acc * 10 + HexVal(Head(ds)))

\* str() of a host int
PyIntStr(k) == (IF k < 0 THEN <<"-">> ELSE <<>>) \o DigitsOf(Abs(k))

\* repr() of a host float m * 10^e, ds the digits of |m|: positional when
\* the decimal point lies within -4 < decpt <= 16, exponent form otherwise.
ExponentRepr(ds, ex) ==
    <<ds[1]>> \o (IF Len(ds) > 1 THEN <<".">> \o SubSeq(ds, 2, Len(ds)) ELSE <<>>)
    \o <<"e">> \o (IF ex < 0 THEN <<"-">> ELSE <<"+">>)
    \o (IF Abs(ex) < 10 THEN <<"0">> ELSE <<>>) \o DigitsOf(Abs(ex))

PositionalRepr(ds, e, decpt) ==
    IF e >= 0 THEN ds \o Repeat(<<"0">>, e) \o <<".", "0">>
    ELSE IF decpt > 0
    THEN SubSeq(ds, 1, decpt) \o <<".">> \o SubSeq(ds, decpt + 1, Len(ds))
    ELSE <<"0", ".">> \o Repeat(<<"0">>, 0 - decpt) \o ds

FloatRepr(ds, e, decpt) ==
    IF decpt > 16 \/ decpt <= -4 THEN ExponentRepr(ds, decpt - 1)
    ELSE PositionalRepr(ds, e, decpt)

FloatDigitsRepr(ds, e) == FloatRepr(ds, e, Len(ds) + e)

PyFloatStr(m, e) ==
    IF e = InfExp THEN (IF m < 0 THEN <<"-">> ELSE <<>>) \o <<"i", "n", "f">>
    ELSE IF m = 0 THEN <<"0", ".", "0">>
    ELSE (IF m < 0 THEN <<"-">> ELSE <<>>) \o FloatDigitsRepr(DigitsOf(Abs(m)), e)

\* str() of a host list of strings: ['a', 'b']
PyListStr(l) ==
    <<"[">> \o Join(<<",", " ">>, [i \in 1..Len(l) |-> <<SQ>> \o l[i] \o <<SQ>>])
    \o <<"]">>

\* str(value)
PyStr(v) ==
    CASE v.vt = "str" -> v.s
      [] v.vt = "num" -> IF v.isint THEN PyIntStr(v.m * Pow10(v.e))
                         ELSE PyFloatStr(v.m, v.e)
      [] v.vt = "bool" -> IF v.b THEN <<"T", "r", "u", "e">>
                          ELSE <<"F", "a", "l", "s", "e">>
      [] v.vt = "list" -> PyListStr(v.l)
      [] OTHER -> <<"N", "o", "n", "e">>

\* bool(value)
Truthy(v) ==
    CASE v.vt = "str" -> v.s # <<>>
      [] v.vt = "num" -> v.m # 0
      [] v.vt = "bool" -> v.b
      [] v.vt = "list" -> v.l # <<>>
      [] OTHER -> FALSE

\* float(s) for the texts _scan_number builds: [-]digits[.digits][e[+-]digits*]
IsNeg(s) == s # <<>> /\ s[1] = "-"
Unsigned(s) == IF s # <<>> /\ s[1] \in {"+", "-"} THEN Tail(s) ELSE s

\* index of the first character of s in class (0 when there is none)
FirstPos(s, class) ==
    IF \E i \in 1..Len(s) : s[i] \in class
    THEN CHOOSE i \in 1..Len(s) :
            s[i] \in class /\ \A j \in 1..(i - 1) : s[j] \notin class
    ELSE 0

Before(s, pos) == IF pos = 0 THEN s ELSE SubSeq(s, 1, pos - 1)
After(s, pos) == IF pos = 0 THEN <<>> ELSE SubSeq(s, pos + 1, Len(s))

\* the float nearest to sgn * n[1] * 10^n[2], ds the digits of n[1]: beyond
\* the largest float it is inf, below the smallest it is 0.0
PyFloatRounded(sgn, n, ds) ==
    IF n[1] # 0 /\ (\/ Len(ds) + n[2] > 309
                    \/ Len(ds) + n[2] = 309 /\ HexVal(ds[1]) >= 2
                    \/ Len(ds) + n[2] = 309 /\ Len(ds) > 1 /\ HexVal(ds[2]) >= 8)
    THEN PInf(sgn)
    ELSE IF Len(ds) + n[2] < 0 - 323 THEN PFloat(0, 0)
    ELSE PFloat(sgn * n[1], n[2])

PyFloatValue(sgn, n) == PyFloatRounded(sgn, n, DigitsOf(n[1]))

\* ids, fds: the digits before and after the point; eds: those of the exponent
PyFloatDigits(neg, ids, fds, eneg, eds, hasexp) ==
    IF ids = <<>> \/ (hasexp /\ eds = <<>>)
    THEN [ok |-> FALSE, value |-> PNone]
    ELSE [ok |-> TRUE,
          value |-> PyFloatValue(
              IF neg THEN 0 - 1 ELSE 1,
              NormNum(DigitsVal(ids \o fds, 0),
                      (IF eneg THEN 0 - DigitsVal(eds, 0) ELSE DigitsVal(eds, 0))
                      - Len(fds)))]

PyFloatParts(neg, mant, expo, hasexp) ==
    PyFloatDigits(neg, Before(mant, FirstPos(mant, {"."})),
                  After(mant, FirstPos(mant, {"."})),
                  IsNeg(expo), Unsigned(expo), hasexp)

PyFloatSplit(neg, body, epos) ==
    PyFloatParts(neg, Before(body, epos), After(body, epos), epos # 0)

PyFloat(s) == PyFloatSplit(IsNeg(s), Unsigned(s), FirstPos(Unsigned(s), {"e", "E"}))

(***************************************************************************)
(* Lexer (TonLexer).  A cursor is [position, line, column]; position is    *)
(* the 0-based index of the next character.                                *)
(***************************************************************************)
NoErr == [kind |-> "", msg |-> "", line |-> 0, column |-> 0]
Err(kind, msg, line, column) ==
    [kind |-> kind, msg |-> msg, line |-> line, column |-> column]

StartCursor == [position |-> 0, line |-> 1, column |-> 1]

Peek(txt, st, offset) ==
    IF st.position + offset < Len(txt) THEN txt[st.position + offset + 1] ELSE NUL

IsAtEnd(txt, st) == st.position >= Len(txt)

\* _advance: past the end, text[position] raises IndexError (callers below test it)
Advance(st) == [st EXCEPT !.position = @ + 1, !.column = @ + 1]

CreateToken(st, type, value) ==
    [type |-> type, value |-> value, line |-> st.line,
     column |-> st.column - (IF Truthy(value) THEN Len(PyStr(value)) ELSE 1)]

NoToken == [type |-> "", value |-> PNone, line |-> 0, column |-> 0]

Scanned(st, type, value) ==
    [err |-> NoErr, token |-> CreateToken(st, type, value), st |-> st]
Failed(st, e) == [err |-> e, token |-> NoToken, st |-> st]

\* A faulty variant of ConsumeChar: the token is made but the character is
\* left in place.
ConsumeCharStays(txt, st, type) ==
    Scanned(st, type, PStr(<<Peek(txt, st, 0)>>))

ConsumeChar(txt, st, type) ==
    Scanned(Advance(st), type, PStr(<<Peek(txt, st, 0)>>))

\* _scan_escape_sequence, the character after the backslash
EscapeMap(c) ==
    CASE c = "n" -> "\n"
      [] c = "t" -> "\t"
      [] c = "r" -> "\r"
      [] OTHER -> c

\* _process_multiline_string
RECURSIVE SplitLines(_, _)
SplitLines(s, cur) ==
    IF s = <<>> THEN <<cur>>
    ELSE IF Head(s) = NL THEN <<cur>> \o SplitLines(Tail(s), <<>>)
    ELSE SplitLines(Tail(s), Append(cur, Head(s)))

IsBlank(line) == \A i \in 1..Len(line) : line[i] \in StripChars

RECURSIVE LeadingWhitespace(_)
LeadingWhitespace(line) ==
    IF line # <<>> /\ Head(line) \in StripChars
    THEN 1 + LeadingWhitespace(Tail(line))
    ELSE 0

RECURSIVE DropLeadingBlank(_)
DropLeadingBlank(lines) ==
    IF lines # <<>> /\ IsBlank(lines[1]) THEN DropLeadingBlank(Tail(lines))
    ELSE lines

RECURSIVE DropTrailingBlank(_)
DropTrailingBlank(lines) ==
    IF lines # <<>> /\ IsBlank(lines[Len(lines)])
    THEN DropTrailingBlank(SubSeq(lines, 1, Len(lines) - 1))
    ELSE lines

RECURSIVE MinIndent(_, _)
MinIndent(lines, acc) ==
    IF lines = <<>> THEN acc
    ELSE IF IsBlank(lines[1]) THEN MinIndent(Tail(lines), acc)
    ELSE MinIndent(Tail(lines),
                   IF acc < 0 THEN LeadingWhitespace(lines[1])
                   ELSE Min(acc, LeadingWhitespace(lines[1])))

\* A faulty variant of DedentLine: all the leading white space of the line is
\* removed, whatever the common indent.
DedentLineStripAll(line, min_indent) ==
    SubSeq(line, LeadingWhitespace(line) + 1, Len(line))

DedentLine(line, min_indent) ==
    IF Len(line) > min_indent THEN SubSeq(line, min_indent + 1, Len(line))
    ELSE line

ProcessMultilineString(value) ==
    LET lines == DropTrailingBlank(DropLeadingBlank(SplitLines(value, <<>>)))
        inf == MinIndent(lines, 0 - 1)
        min_indent == IF inf < 0 THEN 0 ELSE inf
    IN  IF lines = <<>> THEN <<>>
        ELSE Join(<<NL>>, [i \in 1..Len(lines) |-> DedentLine(lines[i], min_indent)])

RECURSIVE ScanTripleLoop(_, _, _)
ScanTripleLoop(txt, st, value) ==
    IF IsAtEnd(txt, st)
    THEN Failed(st, Err("SyntaxError", "Unterminated triple-quoted string", 0, 0))
    ELSE IF Peek(txt, st, 0) = DQ /\ Peek(txt, st, 1) = DQ /\ Peek(txt, st, 2) = DQ
    THEN Scanned(Advance(Advance(Advance(st))), "STRING",
                 PStr(ProcessMultilineString(value)))
    ELSE ScanTripleLoop(txt, Advance(st), Append(value, Peek(txt, st, 0)))

ScanTripleQuotedString(txt, st) ==
    ScanTripleLoop(txt, Advance(Advance(Advance(st))), <<>>)

RECURSIVE ScanStringLoop(_, _, _, _, _)
ScanStringLoop(txt, st, quote_char, value, start) ==
    IF IsAtEnd(txt, st)
    THEN Failed(st, Err("SyntaxError", "Unterminated string", start.line, start.column))
    ELSE IF Peek(txt, st, 0) = quote_char
    THEN Scanned(Advance(st), "STRING", PStr(value))
    ELSE IF Peek(txt, st, 0) = BS
    THEN IF IsAtEnd(txt, Advance(st))
         THEN Failed(Advance(st), Err("IndexError", "string index out of range", 0, 0))
         ELSE ScanStringLoop(txt, Advance(Advance(st)), quote_char,
                             Append(value, EscapeMap(Peek(txt, st, 1))), start)
    ELSE IF Peek(txt, st, 0) = NL /\ quote_char # BQ
    THEN Failed(st, Err("SyntaxError", "Unterminated string", start.line, start.column))
    ELSE ScanStringLoop(txt, Advance(st), quote_char,
                        Append(value, Peek(txt, st, 0)), start)

ScanString(txt, st, quote_char) ==
    IF quote_char = DQ /\ Peek(txt, st, 1) = DQ /\ Peek(txt, st, 2) = DQ
    THEN ScanTripleQuotedString(txt, st)
    ELSE ScanStringLoop(txt, Advance(st), quote_char, <<>>, st)

\* the run of characters of class ok(_) at the cursor
RECURSIVE RunLen(_, _, _)
RunLen(txt, pos, class) ==
    IF pos < Len(txt) /\ txt[pos + 1] \in class
    THEN 1 + RunLen(txt, pos + 1, class)
    ELSE 0

RECURSIVE RunLenUntil(_, _, _)
RunLenUntil(txt, pos, stop) ==
    IF pos < Len(txt) /\ txt[pos + 1] # stop
    THEN 1 + RunLenUntil(txt, pos + 1, stop)
    ELSE 0

HexDigitChars == Digits \cup LowerHex \cup UpperHex
EnumChars == Lower \cup Upper \cup Digits \cup {"_"}

Skip(st, k) == [st EXCEPT !.position = @ + k, !.column = @ + k]
Slice(txt, st, k) == SubSeq(txt, st.position + 1, st.position + k)

RECURSIVE HexDigitsVal(_, _, _)
HexDigitsVal(ds, base, acc) ==
    IF ds = <<>> THEN acc
    ELSE HexDigitsVal(Tail(ds), base, acc * base + HexVal(Head(ds)))

ScanHexNumber(txt, st) ==
    LET st2 == Skip(st, 2)
        k == RunLen(txt, st2.position, HexDigitChars)
        st3 == Skip(st2, k)
    IN  IF k = 0
        THEN Failed(st3, Err("ValueError", "invalid literal for int()", 0, 0))
        ELSE Scanned(st3, "NUMBER", PInt(HexDigitsVal(Slice(txt, st2, k), 16, 0)))

ScanBinaryNumber(txt, st) ==
    LET st2 == Skip(st, 2)
        k == RunLen(txt, st2.position, {"0", "1"})
        st3 == Skip(st2, k)
    IN  IF k = 0
        THEN Failed(st3, Err("ValueError", "invalid literal for int()", 0, 0))
        ELSE Scanned(st3, "NUMBER", PInt(HexDigitsVal(Slice(txt, st2, k), 2, 0)))

\* the cursor after the digits, the decimal part and the exponent at st
SkipDigits(txt, st) == Skip(st, RunLen(txt, st.position, Digits))

SkipFraction(txt, st) ==
    IF Peek(txt, st, 0) = "." /\ IsDigit(Peek(txt, st, 1))
    THEN SkipDigits(txt, Advance(st))
    ELSE st

SkipSign(txt, st) == IF Peek(txt, st, 0) \in {"+", "-"} THEN Advance(st) ELSE st

SkipExponent(txt, st) ==
    IF Peek(txt, st, 0) \in {"e", "E"} THEN SkipDigits(txt, SkipSign(txt, Advance(st)))
    ELSE st

\* _create_token(NUMBER, float(value)), f the outcome of float(value)
NumberToken(st, f) ==
    IF f.ok THEN Scanned(st, "NUMBER", f.value)
    ELSE Failed(st, Err("ValueError", "could not convert string to float", 0, 0))

\* value is the text from start to st
ScanDecimal(txt, start, st) ==
    NumberToken(st, PyFloat(SubSeq(txt, start.position + 1, st.position)))

\* st1 is the cursor after the sign
ScanUnsigned(txt, st, st1) ==
    IF Peek(txt, st1, 0) = "0" /\ Peek(txt, st1, 1) \in {"x", "X"}
    THEN ScanHexNumber(txt, st1)
    ELSE IF Peek(txt, st1, 0) = "0" /\ Peek(txt, st1, 1) \in {"b", "B"}
    THEN ScanBinaryNumber(txt, st1)
    ELSE ScanDecimal(txt, st, SkipExponent(txt, SkipFraction(txt, SkipDigits(txt, st1))))

ScanNumber(txt, st) ==
    ScanUnsigned(txt, st, IF Peek(txt, st, 0) = "-" THEN Advance(st) ELSE st)

IsEnumChar(c) == IsAlpha(c) \/ IsDigit(c) \/ c = "_"
IsIdentStart(c) == IsAlpha(c) \/ c = "_"

\* the while loop of _scan_enum: [values, current, st] when it is left
RECURSIVE ScanEnumLoop(_, _, _, _)
ScanEnumLoop(txt, st, values, current) ==
    IF IsAtEnd(txt, st) THEN [values |-> values, current |-> current, st |-> st]
    ELSE IF Peek(txt, st, 0) = "|"
    THEN LET vs == IF current # <<>> THEN Append(values, current) ELSE values
             st1 == Advance(st)
         IN  IF ~IsIdentStart(Peek(txt, st1, 0))
             THEN [values |-> vs, current |-> <<>>, st |-> st1]
             ELSE ScanEnumLoop(txt, st1, vs, <<>>)
    ELSE IF IsEnumChar(Peek(txt, st, 0))
    THEN ScanEnumLoop(txt, Advance(st), values, Append(current, Peek(txt, st, 0)))
    ELSE [values |-> values, current |-> current, st |-> st]

\* values, with a pending run taken when nothing else was captured
EnumValues(r) == IF r.values = <<>> /\ r.current # <<>> THEN <<r.current>> ELSE r.values

\* A faulty variant of EnumToken: the first captured value alone decides the
\* token, so that a set collapses to a single enum.
EnumTokenFirstOnly(st, values) ==
    IF Len(values) >= 1 THEN Scanned(st, "ENUM", PStr(values[1]))
    ELSE Failed(st, Err("SyntaxError", "Invalid enum", 0, 0))

\* the token the captured values make
EnumToken(st, values) ==
    IF Len(values) >= 1
    THEN Scanned(st, IF Len(values) = 1 THEN "ENUM" ELSE "ENUM_SET",
                 IF Len(values) = 1 THEN PStr(values[1]) ELSE PList(values))
    ELSE Failed(st, Err("SyntaxError", "Invalid enum", 0, 0))

ScanEnumClosed(r) == EnumToken(r.st, EnumValues(r))

ScanEnum(txt, st) == ScanEnumClosed(ScanEnumLoop(txt, Advance(st), <<>>, <<>>))

\* _try_to_scan_guid: [guid, st]; guid = <<>> is None.  A failed attempt puts
\* position back to start_pos and leaves column where the scan stopped.
GuidParts == <<8, 4, 4, 4, 12>>

RECURSIVE TryGuidPart(_, _, _, _)
TryGuidPart(txt, st, i, start_pos) ==
    IF i > Len(GuidParts) THEN [guid |-> Slice(txt, [st EXCEPT !.position = start_pos],
                                               st.position - start_pos),
                                st |-> st]
    ELSE LET dash == i > 1
             st1 == IF dash /\ Peek(txt, st, 0) = "-" THEN Advance(st) ELSE st
             k == Min(RunLen(txt, st1.position, HexDigitChars), GuidParts[i])
             st2 == Skip(st1, k)
         IN  IF dash /\ Peek(txt, st, 0) # "-"
             THEN [guid |-> <<>>, st |-> [st EXCEPT !.position = start_pos]]
             ELSE IF k < GuidParts[i]
             THEN [guid |-> <<>>, st |-> [st2 EXCEPT !.position = start_pos]]
             ELSE TryGuidPart(txt, st2, i + 1, start_pos)

\* A faulty variant of TryToScanGuid: a failed attempt leaves the position
\* where the scan stopped.
TryToScanGuidNoRewind(txt, st) ==
    LET r == TryGuidPart(txt, st, 1, st.position)
    IN  IF r.guid # <<>> THEN r
        ELSE [guid |-> <<>>,
              st |-> [r.st EXCEPT !.position = st.position + (r.st.column - st.column)]]

TryToScanGuid(txt, st) == TryGuidPart(txt, st, 1, st.position)

KeywordType(value) ==
    IF value \in {<<"t", "r", "u", "e">>, <<"f", "a", "l", "s", "e">>} THEN "BOOLEAN"
    ELSE IF value = <<"n", "u", "l", "l">> THEN "NULL"
    ELSE IF value = <<"u", "n", "d", "e", "f", "i", "n", "e", "d">> THEN "UNDEFINED"
    ELSE IF IsUpper(value[1]) THEN "CLASS_NAME"
    ELSE "IDENTIFIER"

KeywordValue(value) ==
    IF value = <<"t", "r", "u", "e">> THEN PBool(TRUE)
    ELSE IF value = <<"f", "a", "l", "s", "e">> THEN PBool(FALSE)
    ELSE IF value \in {<<"n", "u", "l", "l">>,
                       <<"u", "n", "d", "e", "f", "i", "n", "e", "d">>} THEN PNone
    ELSE PStr(value)

WordToken(st, value) == Scanned(st, KeywordType(value), KeywordValue(value))

ScanIdentifierOrKeyword(txt, st) ==
    WordToken(Skip(st, RunLen(txt, st.position, EnumChars)),
              Slice(txt, st, RunLen(txt, st.position, EnumChars)))

SingleCharTokens ==
    [c \in {"{", "}", "[", "]", "(", ")", ":", ",", "$", "%", "&", "^"} |->
        CASE c = "{" -> "LEFT_BRACE"
          [] c = "}" -> "RIGHT_BRACE"
          [] c = "[" -> "LEFT_BRACKET"
          [] c = "]" -> "RIGHT_BRACKET"
          [] c = "(" -> "LEFT_PAREN"
          [] c = ")" -> "RIGHT_PAREN"
          [] c = ":" -> "COLON"
          [] c = "," -> "COMMA"
          [] c = "$" -> "STRING_HINT"
          [] c = "%" -> "NUMBER_HINT"
          [] c = "&" -> "BOOLEAN_HINT"
          [] OTHER -> "DATE_HINT"]

\* _next_token after the quote/structure dispatch: GUID attempt, number, identifier
ScanWord(txt, st) ==
    LET char == Peek(txt, st, 0)
    IN  IF IsDigit(char) \/ (char = "-" /\ IsDigit(Peek(txt, st, 1)))
        THEN ScanNumber(txt, st)
        ELSE IF IsAlpha(char) \/ char = "_"
        THEN ScanIdentifierOrKeyword(txt, st)
        ELSE Failed(st, Err("SyntaxError", "Unexpected character", st.line, st.column))

NextToken(txt, st) ==
    LET char == Peek(txt, st, 0)
        g == TryToScanGuid(txt, st)
    IN  IF char \in DOMAIN SingleCharTokens
        THEN ConsumeChar(txt, st, SingleCharTokens[char])
        ELSE IF char = "|" THEN ScanEnum(txt, st)
        ELSE IF char \in {DQ, SQ, BQ} THEN ScanString(txt, st, char)
        ELSE IF IsHexDigit(char) /\ g.guid # <<>> THEN Scanned(g.st, "GUID", PStr(g.guid))
        ELSE ScanWord(txt, IF IsHexDigit(char) THEN g.st ELSE st)

\* A faulty variant of SkipBlockComment: the comment is closed by the first
\* asterisk and the character after it, whatever that character is.
RECURSIVE SkipBlockCommentAtStar(_, _)
SkipBlockCommentAtStar(txt, st) ==
    IF IsAtEnd(txt, st) THEN st
    ELSE IF Peek(txt, st, 0) = "*" THEN Skip(st, 2)
    ELSE IF Peek(txt, st, 0) = NL
    THEN SkipBlockCommentAtStar(txt, Advance([st EXCEPT !.line = @ + 1, !.column = 0]))
    ELSE SkipBlockCommentAtStar(txt, Advance(st))

RECURSIVE SkipBlockComment(_, _)
SkipBlockComment(txt, st) ==
    IF IsAtEnd(txt, st) THEN st
    ELSE IF Peek(txt, st, 0) = "*" /\ Peek(txt, st, 1) = "/" THEN Skip(st, 2)
    ELSE IF Peek(txt, st, 0) = NL
    THEN SkipBlockComment(txt, Advance([st EXCEPT !.line = @ + 1, !.column = 0]))
    ELSE SkipBlockComment(txt, Advance(st))

RECURSIVE SkipWhitespaceAndComments(_, _)
SkipWhitespaceAndComments(txt, st) ==
    LET char == Peek(txt, st, 0)
    IN  IF IsAtEnd(txt, st) THEN st
        ELSE IF char \in {" ", "\t", "\r"}
        THEN SkipWhitespaceAndComments(txt, Advance(st))
        ELSE IF char = NL
        THEN SkipWhitespaceAndComments(
                 txt, Advance([st EXCEPT !.line = @ + 1, !.column = 0]))
        ELSE IF char = "/" /\ Peek(txt, st, 1) = "/"
        THEN SkipWhitespaceAndComments(
                 txt, Skip(st, RunLenUntil(txt, st.position, NL)))
        ELSE IF char = "/" /\ Peek(txt, st, 1) = "*"
        THEN SkipWhitespaceAndComments(txt, SkipBlockComment(txt, Skip(st, 2)))
        ELSE st

\* tokenize on a lexer instance [text, st, tokens]: [err, st, tokens]
RECURSIVE TokenizeLoop(_, _, _)

\* the token r has been produced (or the scan has failed)
TokenizeAppend(txt, tokens, r) ==
    IF r.err # NoErr THEN [err |-> r.err, st |-> r.st, tokens |-> tokens]
    ELSE TokenizeLoop(txt, r.st, Append(tokens, r.token))

\* st1 is the cursor after white space and comments
TokenizeAt(txt, st1, tokens) ==
    IF IsAtEnd(txt, st1)
    THEN [err |-> NoErr, st |-> st1,
          tokens |-> Append(tokens, CreateToken(st1, "END_OF_FILE", PNone))]
    ELSE TokenizeAppend(txt, tokens, NextToken(txt, st1))

TokenizeLoop(txt, st, tokens) ==
    TokenizeAt(txt, SkipWhitespaceAndComments(txt, st), tokens)

Tokenize(txt) == TokenizeLoop(txt, StartCursor, <<>>)

(***************************************************************************)
(* Document model (TonValue, TonObject, TonArray, TonDocument).  One       *)
(* record shape for every node; kind is "value", "object", "array", or     *)
(* "raw" for a bare host value held in a slot (the metadata entries of an  *)
(* object's mapping, or host values given in place of nodes), "dict" and   *)
(* "list" for host maps and lists.  keys/vals is the ordered mapping of an *)
(* object (vals alone the items of an array).                              *)
(***************************************************************************)
EmptyNode == [kind |-> "raw", value |-> PNone, type_hint |-> PNone,
              keys |-> <<>>, vals |-> <<>>,
              class_name |-> PNone, instance_count |-> PNone]

Raw(v) == [EmptyNode EXCEPT !.value = v]
TonValue(v, hint) == [EmptyNode EXCEPT !.kind = "value", !.value = v, !.type_hint = hint]
NewTonObject == [EmptyNode EXCEPT !.kind = "object"]
NewTonArray == [EmptyNode EXCEPT !.kind = "array"]

ClassNameKey == <<"_", "c", "l", "a", "s", "s", "N", "a", "m", "e">>
InstanceIdKey == <<"_", "i", "n", "s", "t", "a", "n", "c", "e", "I", "d">>

IndexOf(keys, key) ==
    IF \E i \in 1..Len(keys) : keys[i] = key
    THEN CHOOSE i \in 1..Len(keys) : keys[i] = key
    ELSE 0

RemoveAt(seq, i) == SubSeq(seq, 1, i - 1) \o SubSeq(seq, i + 1, Len(seq))

\* properties[key] = value
ObjSet(obj, key, value) ==
    LET i == IndexOf(obj.keys, key)
    IN  IF i = 0 THEN [obj EXCEPT !.keys = Append(@, key), !.vals = Append(@, value)]
        ELSE [obj EXCEPT !.vals[i] = value]

ObjHas(obj, key) == IndexOf(obj.keys, key) # 0

\* properties.get(key): the absent key reads as None
ObjGet(obj, key) ==
    IF ObjHas(obj, key) THEN obj.vals[IndexOf(obj.keys, key)] ELSE Raw(PNone)

ObjDelete(obj, key) ==
    LET i == IndexOf(obj.keys, key)
    IN  IF i = 0 THEN obj
        ELSE [obj EXCEPT !.keys = RemoveAt(@, i), !.vals = RemoveAt(@, i)]

SetClassName(obj, v) ==
    LET o == [obj EXCEPT !.class_name = v]
    IN  IF Truthy(v) THEN ObjSet(o, ClassNameKey, Raw(v))
        ELSE ObjDelete(o, ClassNameKey)

SetInstanceCount(obj, v) ==
    LET o == [obj EXCEPT !.instance_count = v]
    IN  IF v # PNone THEN ObjSet(o, InstanceIdKey, Raw(v))
        ELSE ObjDelete(o, InstanceIdKey)

ArrAdd(arr, value) == [arr EXCEPT !.vals = Append(@, value)]

\* JSON projection (to_json).  A projected value is a node of kind "raw" (a
\* host primitive), "dict" or "list"; a host list of strings projects to a
\* list.  Host maps and lists held in place of nodes are returned as they are.
RECURSIVE ToJson(_)
ToJson(node) ==
    CASE node.kind = "object" ->
           LET meta1 == IF Truthy(node.class_name)
                        THEN ObjSet([EmptyNode EXCEPT !.kind = "dict"],
                                    ClassNameKey, Raw(node.class_name))
                        ELSE [EmptyNode EXCEPT !.kind = "dict"]
               meta2 == IF node.instance_count # PNone
                        THEN ObjSet(meta1, InstanceIdKey, Raw(node.instance_count))
                        ELSE meta1
               Fill[i \in 0..Len(node.keys)] ==
                   IF i = 0 THEN meta2
                   ELSE ObjSet(Fill[i - 1], node.keys[i], ToJson(node.vals[i]))
           IN  Fill[Len(node.keys)]
      [] node.kind = "array" ->
           [EmptyNode EXCEPT !.kind = "list",
                             !.vals = [i \in 1..Len(node.vals) |-> ToJson(node.vals[i])]]
      [] node.kind \in {"dict", "list"} -> node
      [] OTHER ->
           IF node.value.vt = "list"
           THEN [EmptyNode EXCEPT !.kind = "list",
                                  !.vals = [i \in 1..Len(node.value.l) |->
                                               Raw(PStr(node.value.l[i]))]]
           ELSE Raw(node.value)

\* == of two host primitives: numbers by value (1 == 1.0, True == 1)
NumOf(v) == IF v.vt = "bool" THEN (IF v.b THEN <<1, 0>> ELSE <<0, 0>>) ELSE <<v.m, v.e>>

HostEq(a, b) ==
    IF a.vt \in {"num", "bool"} /\ b.vt \in {"num", "bool"} THEN NumOf(a) = NumOf(b)
    ELSE a.vt = b.vt /\ a.s = b.s

\* == of two projected values: dicts by key, lists by position
RECURSIVE JsonEq(_, _)
JsonEq(a, b) ==
    IF a.kind # b.kind THEN FALSE
    ELSE IF a.kind = "dict"
    THEN /\ Len(a.keys) = Len(b.keys)
         /\ \A i \in 1..Len(a.keys) :
               /\ IndexOf(b.keys, a.keys[i]) # 0
               /\ JsonEq(a.vals[i], b.vals[IndexOf(b.keys, a.keys[i])])
    ELSE IF a.kind = "list"
    THEN /\ Len(a.vals) = Len(b.vals)
         /\ \A i \in 1..Len(a.vals) : JsonEq(a.vals[i], b.vals[i])
    ELSE a.kind = "raw" /\ HostEq(a.value, b.value)

(***************************************************************************)
(* Parser (TonParser).  Each routine returns [err, node, cur]: cur is the  *)
(* 0-based index of the next token.                                        *)
(***************************************************************************)
DefaultParseOptions ==
    [allow_trailing_comma |-> FALSE, strict_mode |-> TRUE, allow_partial |-> FALSE]

PPeek(tokens, cur) == tokens[cur + 1]
PIsAtEnd(tokens, cur) == PPeek(tokens, cur).type = "END_OF_FILE"
PCheck(tokens, cur, type) == ~PIsAtEnd(tokens, cur) /\ PPeek(tokens, cur).type = type
PAdvance(tokens, cur) == IF PIsAtEnd(tokens, cur) THEN cur ELSE cur + 1
PPrevious(tokens, cur) == IF cur = 0 THEN tokens[Len(tokens)] ELSE tokens[cur]

ParseError(msg, token) == Err("TonParseError", msg, token.line, token.column)
POk(node, cur) == [err |-> NoErr, node |-> node, cur |-> cur]
PFail(e, cur) == [err |-> e, node |-> EmptyNode, cur |-> cur]

\* _consume
PConsume(tokens, cur, type, message) ==
    IF PCheck(tokens, cur, type) THEN POk(EmptyNode, PAdvance(tokens, cur))
    ELSE PFail(ParseError(message, PPeek(tokens, cur)), cur)

HintString == <<"s", "t", "r", "i", "n", "g">>
HintNumber == <<"n", "u", "m", "b", "e", "r">>
HintBoolean == <<"b", "o", "o", "l", "e", "a", "n">>
HintDate == <<"d", "a", "t", "e">>
HintEnum == <<"e", "n", "u", "m">>
HintEnumSet == <<"e", "n", "u", "m", "S", "e", "t">>

TypeHintMap(type) ==
    CASE type = "STRING_HINT" -> HintString
      [] type = "NUMBER_HINT" -> HintNumber
      [] type = "BOOLEAN_HINT" -> HintBoolean
      [] OTHER -> HintDate

\* value.type_hint = type_hint, when the value is a TonValue
WithHint(node, hint) ==
    IF node.kind = "value" THEN [node EXCEPT !.type_hint = hint] ELSE node

\* int(count_token.value)
PyInt(v) == IF v.e >= 0 THEN PInt(v.m * Pow10(v.e))
            ELSE PInt((Abs(v.m) \div Pow10(0 - v.e)) * (IF v.m < 0 THEN 0 - 1 ELSE 1))

RECURSIVE ParseValue(_, _, _)
RECURSIVE ParseObjectLoop(_, _, _, _)
RECURSIVE ParseArrayLoop(_, _, _, _)

\* c is the outcome of consuming the opening brace
ParseObjectOpened(tokens, c, options) ==
    IF c.err # NoErr THEN c
    ELSE ParseObjectLoop(tokens, c.cur, NewTonObject, options)

ParseObject(tokens, cur, options) ==
    ParseObjectOpened(tokens, PConsume(tokens, cur, "LEFT_BRACE", "Expected {"), options)

\* A faulty variant of AfterMember: a separator token is taken after every
\* member, whether or not it is a comma.
AfterMemberTakesAny(tokens, cur) ==
    IF ~PCheck(tokens, cur, "RIGHT_BRACE") THEN PAdvance(tokens, cur) ELSE cur

\* after the member's value: the optional comma
AfterMember(tokens, cur) ==
    IF ~PCheck(tokens, cur, "RIGHT_BRACE") /\ PCheck(tokens, cur, "COMMA")
    THEN PAdvance(tokens, cur)
    ELSE cur

\* the closing brace: c is the outcome of consuming it
ObjectClosed(obj, c) == IF c.err # NoErr THEN c ELSE POk(obj, c.cur)

\* the type annotation after a name (name:type: value): [type_hint, cur]
AfterHint(tokens, cur) ==
    IF PCheck(tokens, cur, "COLON") THEN PAdvance(tokens, cur) ELSE cur

Annotated(tokens, cur) ==
    IF PCheck(tokens, cur, "IDENTIFIER")
    THEN [type_hint |-> PPeek(tokens, cur).value,
          cur |-> AfterHint(tokens, PAdvance(tokens, cur))]
    ELSE [type_hint |-> PNone, cur |-> cur]

Annotation(tokens, cur) ==
    IF PCheck(tokens, cur, "COLON") THEN Annotated(tokens, PAdvance(tokens, cur))
    ELSE [type_hint |-> PNone, cur |-> cur]

\* obj.set(name, value) and the next member; v is the parsed value
StoreMember(tokens, name, type_hint, v, obj, options) ==
    IF v.err # NoErr THEN v
    ELSE ParseObjectLoop(tokens, AfterMember(tokens, v.cur),
                         ObjSet(obj, name,
                                IF Truthy(type_hint) THEN WithHint(v.node, type_hint)
                                ELSE v.node),
                         options)

\* a is the annotation read after the name
ParseMember(tokens, name, a, obj, options) ==
    StoreMember(tokens, name, a.type_hint, ParseValue(tokens, a.cur, options),
                obj, options)

ParseObjectLoop(tokens, cur, obj, options) ==
    IF PCheck(tokens, cur, "RIGHT_BRACE") \/ PIsAtEnd(tokens, cur)
    THEN ObjectClosed(obj, PConsume(tokens, cur, "RIGHT_BRACE", "Expected }"))
    ELSE IF PPeek(tokens, cur).type \notin {"IDENTIFIER", "STRING"}
    THEN PFail(ParseError("Expected property name", PPeek(tokens, cur)),
               PAdvance(tokens, cur))
    ELSE ParseMember(tokens, PPeek(tokens, cur).value.s,
                     Annotation(tokens, PAdvance(tokens, cur)), obj, options)

ParseArray(tokens, cur, options) ==
    LET c == PConsume(tokens, cur, "LEFT_BRACKET", "Expected [")
    IN  IF c.err # NoErr THEN c
        ELSE ParseArrayLoop(tokens, c.cur, NewTonArray, options)

\* after the element: the comma, or the error that asks for one
AfterElement(tokens, cur, options) ==
    IF PCheck(tokens, cur, "RIGHT_BRACKET") THEN POk(EmptyNode, cur)
    ELSE IF PCheck(tokens, cur, "COMMA") THEN POk(EmptyNode, PAdvance(tokens, cur))
    ELSE IF ~options.allow_trailing_comma
            /\ PPeek(tokens, cur).type # "RIGHT_BRACKET"
    THEN PFail(ParseError("Expected comma or ]", PPeek(tokens, cur)), cur)
    ELSE POk(EmptyNode, cur)

ParseArrayLoop(tokens, cur, arr, options) ==
    IF PCheck(tokens, cur, "RIGHT_BRACKET") \/ PIsAtEnd(tokens, cur)
    THEN LET c == PConsume(tokens, cur, "RIGHT_BRACKET", "Expected ]")
         IN  IF c.err # NoErr THEN c ELSE POk(arr, c.cur)
    ELSE LET v == ParseValue(tokens, cur, options)
             a == AfterElement(tokens, v.cur, options)
         IN  IF v.err # NoErr THEN v
             ELSE IF a.err # NoErr THEN a
             ELSE ParseArrayLoop(tokens, a.cur, ArrAdd(arr, v.node), options)

ParseEnum(tokens, cur) ==
    POk(TonValue(PPeek(tokens, cur).value, PStr(HintEnum)), PAdvance(tokens, cur))

ParseHintedValue(tokens, cur, options) ==
    LET type_hint == TypeHintMap(PPeek(tokens, cur).type)
        v == ParseValue(tokens, PAdvance(tokens, cur), options)
    IN  IF v.err # NoErr THEN v
        ELSE POk(WithHint(v.node, PStr(type_hint)), v.cur)

\* obj.class_name, obj.instance_count; o is the parsed object
TypedObject(class_name, instance_count, o) ==
    IF o.err # NoErr THEN o
    ELSE POk(SetInstanceCount(SetClassName(o.node, class_name), instance_count), o.cur)

\* The object after the class name and the optional count.  closed is the
\* outcome of consuming the count's closing parenthesis (of nothing, when
\* there is no count).
ParseTypedBody(tokens, class_name, instance_count, closed, options) ==
    IF closed.err # NoErr THEN closed
    ELSE TypedObject(class_name, instance_count,
                     ParseObject(tokens, closed.cur, options))

\* n is the outcome of consuming the count
ParseCounted(tokens, class_name, n, options) ==
    IF n.err # NoErr THEN n
    ELSE IF PPrevious(tokens, n.cur).value.e = InfExp
    THEN PFail(Err("OverflowError", "cannot convert float infinity to integer", 0, 0),
               n.cur)
    ELSE ParseTypedBody(tokens, class_name, PyInt(PPrevious(tokens, n.cur).value),
                        PConsume(tokens, n.cur, "RIGHT_PAREN", "Expected )"), options)

\* c1 is the cursor after the class name
ParseTypedCount(tokens, class_name, c1, options) ==
    IF PCheck(tokens, c1, "LEFT_PAREN")
    THEN ParseCounted(tokens, class_name,
                      PConsume(tokens, PAdvance(tokens, c1), "NUMBER",
                               "Expected instance count"),
                      options)
    ELSE ParseTypedBody(tokens, class_name, PNone, POk(EmptyNode, c1), options)

ParseTypedObject(tokens, cur, options) ==
    ParseTypedCount(tokens, PPeek(tokens, cur).value, PAdvance(tokens, cur), options)

ParseValue(tokens, cur, options) ==
    LET token == PPeek(tokens, cur)
    IN  CASE token.type = "LEFT_BRACE" -> ParseObject(tokens, cur, options)
          [] token.type = "LEFT_BRACKET" -> ParseArray(tokens, cur, options)
          [] token.type \in {"STRING", "NUMBER", "BOOLEAN", "NULL", "UNDEFINED", "GUID"} ->
               POk(TonValue(token.value, PNone), PAdvance(tokens, cur))
          [] token.type \in {"ENUM", "ENUM_SET"} -> ParseEnum(tokens, cur)
          [] token.type \in {"STRING_HINT", "NUMBER_HINT", "BOOLEAN_HINT", "DATE_HINT"} ->
               ParseHintedValue(tokens, cur, options)
          [] token.type = "CLASS_NAME" -> ParseTypedObject(tokens, cur, options)
          [] token.type = "END_OF_FILE" ->
               PFail(ParseError("Unexpected end of input", token), cur)
          [] OTHER -> PFail(ParseError("Unexpected token", token), cur)

\* A faulty variant of ParseRoot: the tokens after the top-level value are
\* not looked at.
ParseRootIgnoresRest(tokens, r) ==
    IF r.err # NoErr THEN [err |-> r.err, root |-> EmptyNode]
    ELSE [err |-> NoErr, root |-> r.node]

\* TonParser(options).parse(text): [err, root]; r is the parsed root
ParseRoot(tokens, r) ==
    IF r.err # NoErr THEN [err |-> r.err, root |-> EmptyNode]
    ELSE IF ~PIsAtEnd(tokens, r.cur)
    THEN [err |-> ParseError("Unexpected content after parsing", PPeek(tokens, r.cur)),
          root |-> EmptyNode]
    ELSE [err |-> NoErr, root |-> r.node]

\* lx is the outcome of lexer.tokenize()
ParseTokens(lx, options) ==
    IF lx.err # NoErr THEN [err |-> lx.err, root |-> EmptyNode]
    ELSE ParseRoot(lx.tokens, ParseValue(lx.tokens, 0, options))

ParseWith(txt, options) == ParseTokens(Tokenize(txt), options)

Parse(txt) == ParseWith(txt, DefaultParseOptions)

(***************************************************************************)
(* Serializer (TonSerializeOptions, TonSerializer)                         *)
(***************************************************************************)
LowerSeq == <<"a", "b", "c", "d", "e", "f", "g", "h", "i", "j", "k", "l", "m",
              "n", "o", "p", "q", "r", "s", "t", "u", "v", "w", "x", "y", "z">>
UpperSeq == <<"A", "B", "C", "D", "E", "F", "G", "H", "I", "J", "K", "L", "M",
              "N", "O", "P", "Q", "R", "S", "T", "U", "V", "W", "X", "Y", "Z">>
\* the characters in code-point order
Ascii == <<"\t", "\n", "\f", "\r", " ", "!", DQ, "#", "$", "%", "&", SQ, "(", ")",
           "*", "+", ",", "-", ".", "/">> \o DigitSeq
         \o <<":", ";", "<", "=", ">", "?", "@">> \o UpperSeq
         \o <<"[", BS, "]", "^", "_", BQ>> \o LowerSeq \o <<"{", "|", "}", "~">>

Ord(c) == CHOOSE i \in 1..Len(Ascii) : Ascii[i] = c
ToLower(c) == IF c \in Upper THEN LowerSeq[CHOOSE i \in 1..26 : UpperSeq[i] = c] ELSE c
LowerStr(str) == [i \in 1..Len(str) |-> ToLower(str[i])]

RECURSIVE StrLess(_, _)
StrLess(a, b) ==
    IF b = <<>> THEN FALSE
    ELSE IF a = <<>> THEN TRUE
    ELSE IF Head(a) = Head(b) THEN StrLess(Tail(a), Tail(b))
    ELSE Ord(Head(a)) < Ord(Head(b))

RECURSIVE InsertSorted(_, _)
InsertSorted(sorted, key) ==
    IF sorted = <<>> THEN <<key>>
    ELSE IF StrLess(key, Head(sorted)) THEN <<key>> \o sorted
    ELSE <<Head(sorted)>> \o InsertSorted(Tail(sorted), key)

RECURSIVE Sorted(_)
Sorted(keys) ==
    IF keys = <<>> THEN <<>>
    ELSE InsertSorted(Sorted(SubSeq(keys, 1, Len(keys) - 1)), keys[Len(keys)])

\* the constructor's parameters; PNone is an argument left out
DefaultArgs ==
    [format_style |-> "none", format |-> "none", indent_size |-> 4,
     indent_char |-> <<" ">>, indent |-> PNone, include_header |-> FALSE,
     ton_version |-> <<"1">>, schema_file |-> PNone, include_type_hints |-> FALSE,
     sort_properties |-> FALSE, property_separator |-> PNone, quote_style |-> "none",
     line_ending |-> <<NL>>, omit_nulls |-> FALSE, omit_undefined |-> TRUE,
     omit_empty_collections |-> FALSE, array_separator |-> PNone]

TonSerializeOptions(a) ==
    LET format_style == IF a.format # "none"
                        THEN (IF a.format = "compact" THEN "compact" ELSE "pretty")
                        ELSE IF a.format_style # "none" THEN a.format_style
                        ELSE "pretty"
        compact == format_style = "compact"
    IN  [format_style |-> format_style,
         indent_char |-> IF a.indent # PNone
                         THEN (IF a.indent.s # <<>> THEN <<a.indent.s[1]>> ELSE <<" ">>)
                         ELSE a.indent_char,
         indent_size |-> IF a.indent # PNone THEN Len(a.indent.s) ELSE a.indent_size,
         include_type_hints |-> a.include_type_hints,
         property_separator |-> IF a.property_separator = PNone
                                THEN (IF compact THEN <<":">> ELSE <<":", " ">>)
                                ELSE a.property_separator.s,
         array_separator |-> IF a.array_separator = PNone
                             THEN (IF compact THEN <<",">> ELSE <<",", " ">>)
                             ELSE a.array_separator.s,
         quote_style |-> IF a.quote_style = "none" THEN "double" ELSE a.quote_style,
         include_header |-> a.include_header,
         ton_version |-> a.ton_version,
         schema_file |-> a.schema_file,
         sort_properties |-> a.sort_properties,
         line_ending |-> a.line_ending,
         omit_nulls |-> a.omit_nulls,
         omit_undefined |-> a.omit_undefined,
         omit_empty_collections |-> a.omit_empty_collections]

\* the presets
CompactPreset ==
    TonSerializeOptions([DefaultArgs EXCEPT
        !.format_style = "compact", !.indent_size = 0, !.indent_char = <<>>,
        !.omit_nulls = TRUE, !.omit_empty_collections = TRUE,
        !.property_separator = PStr(<<" ", "=", " ">>), !.quote_style = "single"])
PrettyPreset ==
    TonSerializeOptions([DefaultArgs EXCEPT
        !.format_style = "pretty", !.property_separator = PStr(<<":", " ">>),
        !.quote_style = "double"])
OptimizedPreset ==
    TonSerializeOptions([DefaultArgs EXCEPT
        !.include_type_hints = TRUE, !.sort_properties = TRUE])

\* options.indentation or ''
Indentation(o) ==
    IF o.format_style = "compact" \/ o.indent_size = 0 THEN <<>>
    ELSE Repeat(o.indent_char, o.indent_size)

IsHexRun(str, from, n) ==
    \A i \in from..(from + n - 1) : str[i] \in HexDigitChars

\* _is_guid: re.match of ^8-4-4-4-12$ ($ also matches before a final newline)
IsGuid(str) ==
    LET body == IF Len(str) = 37 /\ str[37] = NL THEN SubSeq(str, 1, 36) ELSE str
    IN  /\ Len(body) = 36
        /\ IsHexRun(body, 1, 8) /\ body[9] = "-"
        /\ IsHexRun(body, 10, 4) /\ body[14] = "-"
        /\ IsHexRun(body, 15, 4) /\ body[19] = "-"
        /\ IsHexRun(body, 20, 4) /\ body[24] = "-"
        /\ IsHexRun(body, 25, 12)

GetTypeHintPrefix(type_hint) ==
    LET h == LowerStr(type_hint)
    IN  CASE h = HintString -> <<"$">>
          [] h = HintNumber -> <<"%">>
          [] h = HintBoolean -> <<"&">>
          [] h = HintDate -> <<"^">>
          [] OTHER -> <<>>

Quote(o) == IF o.quote_style = "double" THEN DQ ELSE SQ

\* value.replace('\\', '\\\\').replace(quote, '\\' + quote)
Escaped(str, quote) ==
    Concat([i \in 1..Len(str) |->
               IF str[i] = BS THEN <<BS, BS>>
               ELSE IF str[i] = quote THEN <<BS, quote>>
               ELSE <<str[i]>>])

SerializePrimitive(value, type_hint, o) ==
    LET hinted == o.include_type_hints /\ Truthy(type_hint)
        prefix == IF hinted THEN GetTypeHintPrefix(type_hint.s) ELSE <<>>
    IN  CASE value.vt = "none" -> <<"n", "u", "l", "l">>
          [] value.vt = "bool" ->
               prefix \o (IF value.b THEN <<"t", "r", "u", "e">>
                          ELSE <<"f", "a", "l", "s", "e">>)
          [] value.vt = "str" ->
               IF IsGuid(value.s) THEN value.s
               ELSE IF hinted THEN prefix \o <<Quote(o)>> \o value.s \o <<Quote(o)>>
               ELSE <<Quote(o)>> \o Escaped(value.s, Quote(o)) \o <<Quote(o)>>
          [] OTHER -> prefix \o PyStr(value)

\* _should_omit_value
ShouldOmitValue(node, o) ==
    IF node.kind \in {"value", "raw"} /\ node.value = PNone THEN o.omit_nulls
    ELSE IF node.kind \in {"array", "list"} THEN node.vals = <<>> /\ o.omit_empty_collections
    ELSE IF node.kind = "raw" /\ node.value.vt = "list"
    THEN node.value.l = <<>> /\ o.omit_empty_collections
    ELSE IF node.kind \in {"object", "dict"}
    THEN node.keys = <<>> /\ o.omit_empty_collections
    ELSE FALSE

\* the keys _serialize_object emits, in order
RECURSIVE NonOmitted(_, _, _)
NonOmitted(obj, keys, o) ==
    IF keys = <<>> THEN <<>>
    ELSE (IF (Head(keys) # <<>> /\ Head(keys)[1] = "_")
             \/ ShouldOmitValue(ObjGet(obj, Head(keys)), o)
          THEN <<>> ELSE <<Head(keys)>>)
         \o NonOmitted(obj, Tail(keys), o)

\* A faulty variant of ClassPrefix: the count is tested for truth, so that a
\* count of 0 is left out.
ClassPrefixTruthyCount(obj) ==
    IF Truthy(obj.class_name)
    THEN PyStr(obj.class_name)
         \o (IF Truthy(obj.instance_count)
             THEN <<"(">> \o PyStr(obj.instance_count) \o <<")">> ELSE <<>>)
    ELSE <<>>

ClassPrefix(obj) ==
    IF Truthy(obj.class_name)
    THEN PyStr(obj.class_name)
         \o (IF obj.instance_count # PNone
             THEN <<"(">> \o PyStr(obj.instance_count) \o <<")">> ELSE <<>>)
    ELSE <<>>

RECURSIVE SerializeValue(_, _, _)

SerializeObject(obj, indent_level, o) ==
    LET keys == NonOmitted(obj, IF o.sort_properties THEN Sorted(obj.keys) ELSE obj.keys, o)
        indent == Indentation(o)
        current_indent == Repeat(indent, indent_level + 1)
        compact_items == [i \in 1..Len(keys) |->
            keys[i] \o o.property_separator \o SerializeValue(ObjGet(obj, keys[i]), 0, o)]
        pretty_lines == [i \in 1..Len(keys) |->
            current_indent \o keys[i] \o o.property_separator
            \o SerializeValue(ObjGet(obj, keys[i]), indent_level + 1, o)]
    IN  IF keys = <<>> THEN ClassPrefix(obj) \o <<"{", "}">>
        ELSE IF o.format_style = "compact"
        THEN ClassPrefix(obj) \o <<"{">> \o Join(<<",">>, compact_items) \o <<"}">>
        ELSE ClassPrefix(obj)
             \o Join(o.line_ending,
                     <<<<"{">>>> \o pretty_lines
                     \o <<Repeat(indent, indent_level) \o <<"}">>>>)

SerializeArray(arr, indent_level, o) ==
    LET items == [i \in 1..Len(arr.vals) |-> SerializeValue(arr.vals[i], indent_level, o)]
        indent == Indentation(o)
        current_indent == Repeat(indent, indent_level + 1)
    IN  IF o.omit_empty_collections /\ arr.vals = <<>> THEN <<"[", "]">>
        ELSE IF o.format_style = "compact"
        THEN <<"[">> \o Join(o.array_separator, items) \o <<"]">>
        ELSE <<"[">> \o o.line_ending
             \o Join(o.line_ending, [i \in 1..Len(items) |-> current_indent \o items[i]])
             \o o.line_ending \o Repeat(indent, indent_level) \o <<"]">>

SerializeValue(node, indent_level, o) ==
    CASE node.kind \in {"object", "dict"} ->
           SerializeObject([node EXCEPT !.kind = "object"], indent_level, o)
      [] node.kind \in {"array", "list"} -> SerializeArray(node, indent_level, o)
      [] node.kind = "raw" /\ node.value.vt = "list" ->
           SerializeArray([NewTonArray EXCEPT
                              !.vals = [i \in 1..Len(node.value.l) |->
                                           Raw(PStr(node.value.l[i]))]],
                          indent_level, o)
      [] node.kind = "value" /\ Truthy(node.type_hint) ->
           IF node.type_hint.s = HintEnum
           THEN <<"|">> \o PyStr(node.value) \o <<"|">>
           ELSE IF node.type_hint.s = HintEnumSet
           THEN IF node.value.vt = "list"
                THEN <<"|">> \o Join(<<"|">>, node.value.l) \o <<"|">>
                ELSE <<"|">> \o PyStr(node.value) \o <<"|">>
           ELSE SerializePrimitive(node.value, node.type_hint, o)
      [] OTHER -> SerializePrimitive(node.value, PNone, o)

\* TonDocument(root)
TonDocument(root) == IF root = Raw(PNone) THEN [EmptyNode EXCEPT !.kind = "dict"] ELSE root

\* TonSerializer(options).serialize(document)
Serialize(root, o) ==
    LET header == IF o.include_header
                  THEN <<<<"#", "T", "O", "N", " ">> \o o.ton_version>>
                       \o (IF Truthy(o.schema_file)
                           THEN <<<<"#", "S", "C", "H", "E", "M", "A", " ">>
                                  \o o.schema_file.s>>
                           ELSE <<>>)
                       \o <<<<>>>>
                  ELSE <<>>
    IN  Join(o.line_ending, header \o <<SerializeValue(root, 0, o)>>)

(***************************************************************************)
(* Validator (TonValidator).  A schema fragment is one record shape:       *)
(* type is "none" when the key is absent, items is <<>> or <<fragment>>,   *)
(* the limits and enum are PNone when absent.  An error is                 *)
(* [path, msg, name, got]: the message template msg at path, with the      *)
(* property name or the host type name it mentions.                        *)
(***************************************************************************)
EmptySchema ==
    [type |-> "none", required |-> <<>>, prop_keys |-> <<>>, prop_vals |-> <<>>,
     items |-> <<>>, enum |-> PNone, minLength |-> PNone, maxLength |-> PNone,
     minimum |-> PNone, maximum |-> PNone, minItems |-> PNone, maxItems |-> PNone]

NewResult == [is_valid |-> TRUE, errors |-> <<>>, warnings |-> <<>>]

\* A faulty variant of AddError: once an error is recorded, later ones are
\* dropped (validation stops at the first violation).
AddErrorFirstOnly(result, path, msg, name, got) ==
    IF result.errors # <<>> THEN result
    ELSE [result EXCEPT !.is_valid = FALSE,
                        !.errors = <<[path |-> path, msg |-> msg,
                                      name |-> name, got |-> got]>>]

\* result.is_valid = False; result.errors.append(...)
AddError(result, path, msg, name, got) ==
    [result EXCEPT !.is_valid = FALSE,
                   !.errors = Append(@, [path |-> path, msg |-> msg,
                                         name |-> name, got |-> got])]

\* type(value).__name__
TypeName(node) ==
    CASE node.kind = "object" -> "TonObject"
      [] node.kind = "array" -> "TonArray"
      [] node.kind = "value" -> "TonValue"
      [] node.kind = "dict" -> "dict"
      [] node.kind = "list" -> "list"
      [] node.value.vt = "str" -> "str"
      [] node.value.vt = "bool" -> "bool"
      [] node.value.vt = "list" -> "list"
      [] node.value.vt = "none" -> "NoneType"
      [] OTHER -> IF node.value.isint THEN "int" ELSE "float"

\* value.get_value() if isinstance(value, TonValue) else value
ActualValue(node) == IF node.kind = "value" THEN Raw(node.value) ELSE node

\* a < b on host numbers (a bool counts as 0 or 1)
NumLess(a, b) ==
    LET x == NumOf(a)
        y == NumOf(b)
        e0 == Min(x[2], y[2])
    IN  IF x[2] = InfExp \/ y[2] = InfExp
        THEN (x[2] = InfExp /\ x[1] < 0 /\ ~(y[2] = InfExp /\ y[1] < 0))
             \/ (y[2] = InfExp /\ y[1] > 0 /\ ~(x[2] = InfExp /\ x[1] > 0))
        ELSE x[1] * Pow10(x[2] - e0) < y[1] * Pow10(y[2] - e0)

PropPath(path, key) == IF path # <<>> THEN path \o <<".">> \o key ELSE key
ItemPath(path, i) == path \o <<"[">> \o PyIntStr(i) \o <<"]">>

RECURSIVE ValidateValue(_, _, _, _)

RECURSIVE CheckRequired(_, _, _, _)
CheckRequired(value, required, path, result) ==
    IF required = <<>> THEN result
    ELSE CheckRequired(value, Tail(required), path,
                       IF ~ObjHas(value, Head(required))
                       THEN AddError(result, path, "Missing required property",
                                     Head(required), "")
                       ELSE result)

RECURSIVE ValidateProperties(_, _, _, _, _)
ValidateProperties(value, keys, schema, path, result) ==
    IF keys = <<>> THEN result
    ELSE LET key == Head(keys)
             i == IndexOf(schema.prop_keys, key)
         IN  ValidateProperties(
                 value, Tail(keys), schema, path,
                 IF i # 0
                 THEN ValidateValue(ObjGet(value, key), schema.prop_vals[i],
                                    PropPath(path, key), result)
                 ELSE result)

\* A faulty variant of ValidateObject: after recording the kind error it goes
\* on to the required names and the members.
ValidateObjectDescends(value, schema, path, result) ==
    ValidateProperties(value, value.keys, schema, path,
                       CheckRequired(value, schema.required, path,
                                     IF value.kind # "object"
                                     THEN AddError(result, path, "Expected object", <<>>,
                                                   TypeName(value))
                                     ELSE result))

ValidateObject(value, schema, path, result) ==
    IF value.kind # "object"
    THEN AddError(result, path, "Expected object", <<>>, TypeName(value))
    ELSE ValidateProperties(value, value.keys, schema, path,
                            CheckRequired(value, schema.required, path, result))

RECURSIVE ValidateItems(_, _, _, _, _)
ValidateItems(value, i, items_schema, path, result) ==
    IF i >= Len(value.vals) THEN result
    ELSE ValidateItems(value, i + 1, items_schema, path,
                       ValidateValue(value.vals[i + 1], items_schema,
                                     ItemPath(path, i), result))

\* truthiness of schema.get('items'): an empty mapping counts as absent
HasItemsSchema(schema) == schema.items # <<>> /\ schema.items[1] # EmptySchema

ValidateArray(value, schema, path, result) ==
    LET length == Len(value.vals)
        r1 == IF schema.minItems # PNone /\ NumLess(PInt(length), schema.minItems)
              THEN AddError(result, path, "Array has too few items", <<>>, "")
              ELSE result
        r2 == IF schema.maxItems # PNone /\ NumLess(schema.maxItems, PInt(length))
              THEN AddError(r1, path, "Array has too many items", <<>>, "")
              ELSE r1
    IN  IF value.kind # "array"
        THEN AddError(result, path, "Expected array", <<>>, TypeName(value))
        ELSE IF HasItemsSchema(schema)
        THEN ValidateItems(value, 0, schema.items[1], path, r2)
        ELSE r2

ValidateString(value, schema, path, result) ==
    LET actual == ActualValue(value)
        str == actual.value.s
        r1 == IF schema.minLength # PNone /\ NumLess(PInt(Len(str)), schema.minLength)
              THEN AddError(result, path, "String length is less than minimum", <<>>, "")
              ELSE result
        r2 == IF schema.maxLength # PNone /\ NumLess(schema.maxLength, PInt(Len(str)))
              THEN AddError(r1, path, "String length exceeds maximum", <<>>, "")
              ELSE r1
    IN  IF ~(actual.kind = "raw" /\ actual.value.vt = "str")
        THEN AddError(result, path, "Expected string", <<>>, TypeName(actual))
        ELSE IF schema.enum # PNone
                /\ ~\E i \in 1..Len(schema.enum.l) : schema.enum.l[i] = str
        THEN AddError(result, path, "Value is not in enum", str, "")
        ELSE r2

ValidateNumber(value, schema, path, result) ==
    LET actual == ActualValue(value)
        r1 == IF schema.minimum # PNone /\ NumLess(actual.value, schema.minimum)
              THEN AddError(result, path, "Value is less than minimum", <<>>, "")
              ELSE result
        r2 == IF schema.maximum # PNone /\ NumLess(schema.maximum, actual.value)
              THEN AddError(r1, path, "Value exceeds maximum", <<>>, "")
              ELSE r1
    IN  IF ~(actual.kind = "raw" /\ actual.value.vt \in {"num", "bool"})
        THEN AddError(result, path, "Expected number", <<>>, TypeName(actual))
        ELSE r2

ValidateBoolean(value, schema, path, result) ==
    LET actual == ActualValue(value)
    IN  IF ~(actual.kind = "raw" /\ actual.value.vt = "bool")
        THEN AddError(result, path, "Expected boolean", <<>>, TypeName(actual))
        ELSE result

ValidateNull(value, schema, path, result) ==
    LET actual == ActualValue(value)
    IN  IF actual # Raw(PNone)
        THEN AddError(result, path, "Expected null", <<>>, TypeName(actual))
        ELSE result

ValidateValue(value, schema, path, result) ==
    CASE schema.type = "object" -> ValidateObject(value, schema, path, result)
      [] schema.type = "array" -> ValidateArray(value, schema, path, result)
      [] schema.type = "string" -> ValidateString(value, schema, path, result)
      [] schema.type = "number" -> ValidateNumber(value, schema, path, result)
      [] schema.type = "boolean" -> ValidateBoolean(value, schema, path, result)
      [] schema.type = "null" -> ValidateNull(value, schema, path, result)
      [] OTHER -> result

\* TonValidator().validate(document, schema)
Validate(root, sch) == ValidateValue(root, sch, <<>>, NewResult)

(***************************************************************************)
(* Round-trip machine: a document is built through the model API, then     *)
(* serialized, parsed, serialized again, parsed again and serialized a     *)
(* third time, always under the same options.  A failed parse raises, so   *)
(* the chain stops there.                                                  *)
(***************************************************************************)
MaxMembers == 2
MaxElems == 2

Unset == <<>>
NotParsed == [err |-> NoErr, root |-> EmptyNode]

GuidText ==
    <<"5", "5", "0", "e", "8", "4", "0", "0", "-", "e", "2", "9", "b", "-",
      "4", "1", "d", "4", "-", "a", "7", "1", "6", "-",
      "4", "4", "6", "6", "5", "5", "4", "4", "0", "0", "0", "0">>

StrHi == TonValue(PStr(<<"h", "i">>), PNone)
StrTwoLines == TonValue(PStr(<<"a", NL, "b">>), PNone)
Num15 == TonValue(PFloat(15, 0 - 1), PNone)
Int42 == TonValue(PInt(42), PNone)
BoolTrue == TonValue(PBool(TRUE), PNone)
NullValue == TonValue(PNone, PNone)
EnumX == TonValue(PStr(<<"x">>), PStr(HintEnum))
EnumSetXY == TonValue(PList(<<<<"x">>, <<"y">>>>), PStr(HintEnumSet))
GuidValue == TonValue(PStr(GuidText), PNone)
\* the value the parser yields for the literal |x|y|
EnumSetAsParsed == TonValue(PList(<<<<"x">>, <<"y">>>>), PStr(HintEnum))

RTPrimitives == {StrHi, Num15, Int42, BoolTrue, NullValue}
RTLeaves == RTPrimitives \cup {StrTwoLines, EnumX, EnumSetXY, EnumSetAsParsed, GuidValue}
RTElems == {Num15, StrHi}
RTKeys == <<<<"a">>, <<"b">>>>
ClassP == <<"P">>

\* TonArray() followed by one add per element
RECURSIVE ArrayOf(_)
ArrayOf(elems) ==
    IF elems = <<>> THEN NewTonArray
    ELSE ArrAdd(ArrayOf(SubSeq(elems, 1, Len(elems) - 1)), elems[Len(elems)])

\* TonObject() followed by one set per member, keys taken in RTKeys order
RECURSIVE ObjectOf(_)
ObjectOf(members) ==
    IF members = <<>> THEN NewTonObject
    ELSE ObjSet(ObjectOf(SubSeq(members, 1, Len(members) - 1)),
                RTKeys[Len(members)], members[Len(members)])

SeqsUpTo(S, n) == UNION {[1..k -> S] : k \in 0..n}

RTArrays == {ArrayOf(e) : e \in SeqsUpTo(RTElems, MaxElems)}
RTInner == {NewTonObject, ObjSet(NewTonObject, <<"k">>, Int42),
            SetInstanceCount(SetClassName(ObjSet(NewTonObject, <<"k">>, StrHi),
                                          PStr(ClassP)), PInt(0))}
RTValues == RTLeaves \cup RTArrays \cup RTInner
RTPlain == {ObjectOf(m) : m \in SeqsUpTo(RTValues, MaxMembers)}
RTTyped == {SetClassName(ObjectOf(m), PStr(ClassP)) : m \in SeqsUpTo(RTPrimitives, 1)}
           \cup {SetInstanceCount(SetClassName(ObjectOf(m), PStr(ClassP)), PInt(n)) :
                    m \in SeqsUpTo(RTPrimitives, 1), n \in 0..1}
RTDocs == RTPlain \cup RTTyped \cup RTArrays

DefaultOptions == TonSerializeOptions(DefaultArgs)
CompactFormat == TonSerializeOptions([DefaultArgs EXCEPT !.format = "compact"])
RTOptions == {DefaultOptions, CompactFormat, CompactPreset, PrettyPreset, OptimizedPreset}

RTInit ==
    /\ pc = "built"
    /\ doc \in RTDocs
    /\ opts \in RTOptions
    /\ out = Unset /\ out2 = Unset /\ out3 = Unset
    /\ parsed = NotParsed /\ parsed2 = NotParsed
    /\ text = Unset /\ lexed = Unset /\ alt = Unset
    /\ vschema = EmptySchema /\ vresult = NewResult

\* s1 = TonSerializer(O).serialize(d)
RTSerialize ==
    /\ pc = "built"
    /\ out' = Serialize(TonDocument(doc), opts)
    /\ pc' = "serialized"
    /\ UNCHANGED <<text, lexed, doc, opts, parsed, out2, parsed2, out3, alt,
                   vschema, vresult>>

\* TonParser().parse(s1)
RTParse ==
    /\ pc = "serialized"
    /\ parsed' = Parse(out)
    /\ pc' = "parsed"
    /\ UNCHANGED <<text, lexed, doc, opts, out, out2, parsed2, out3, alt,
                   vschema, vresult>>

\* s2 = TonSerializer(O).serialize(parse(s1))
RTSerialize2 ==
    /\ pc = "parsed"
    /\ parsed.err = NoErr
    /\ out2' = Serialize(TonDocument(parsed.root), opts)
    /\ pc' = "serialized2"
    /\ UNCHANGED <<text, lexed, doc, opts, out, parsed, parsed2, out3, alt,
                   vschema, vresult>>

\* TonParser().parse(s2)
RTParse2 ==
    /\ pc = "serialized2"
    /\ parsed2' = Parse(out2)
    /\ pc' = "parsed2"
    /\ UNCHANGED <<text, lexed, doc, opts, out, parsed, out2, out3, alt,
                   vschema, vresult>>

\* TonSerializer(O).serialize(parse(s2))
RTSerialize3 ==
    /\ pc = "parsed2"
    /\ parsed2.err = NoErr
    /\ out3' = Serialize(TonDocument(parsed2.root), opts)
    /\ pc' = "serialized3"
    /\ UNCHANGED <<text, lexed, doc, opts, out, parsed, out2, parsed2, alt,
                   vschema, vresult>>

RTNext == RTSerialize \/ RTParse \/ RTSerialize2 \/ RTParse2 \/ RTSerialize3

SpecRT == RTInit /\ [][RTNext]_vars

\* every leaf of the tree is a string, number, boolean or null without hint
RECURSIVE OnlyPrimitives(_)
OnlyPrimitives(node) ==
    IF node.kind \in {"object", "array"}
    THEN \A i \in 1..Len(node.vals) :
            node.vals[i].kind = "raw" \/ OnlyPrimitives(node.vals[i])
    ELSE node \in RTPrimitives

RoundTripEqual == parsed.err = NoErr /\ JsonEq(ToJson(parsed.root), ToJson(TonDocument(doc)))

\* C1: Round-trip law.  For every document built from primitives, nested
\* objects and arrays, enum and enum-set values, GUID strings and typed-object
\* metadata, parsing its compact serialization succeeds and returns a tree
\* whose JSON projection equals the document's.
C1_RoundTripCompact ==
    (pc = "parsed" /\ opts = CompactFormat) => RoundTripEqual

\* The document {a: "a<newline>b"}: the compact text keeps the line break
\* inside the quotes and the lexer rejects it.
C1_NewlineStringFails ==
    /\ pc = "parsed" /\ opts = CompactFormat
    /\ doc = ObjectOf(<<StrTwoLines>>)
    /\ out = <<"{", "a", ":", DQ, "a", NL, "b", DQ, "}">>
    /\ parsed.err.kind = "SyntaxError" /\ parsed.err.msg = "Unterminated string"

\* C2: Idempotence.  For every document and every option set O, with
\* s1 = serialize(d, O) and s2 = serialize(parse(s1), O), both parses succeed
\* and serialize(parse(s2), O) is the same text as s2.
C2_Idempotent ==
    /\ (pc = "parsed" => parsed.err = NoErr)
    /\ (pc = "parsed2" => parsed2.err = NoErr)
    /\ (pc = "serialized3" => out3 = out2)

\* The document {a: |x|y|} under the compact format: s1 re-parses, but s2
\* carries the host rendering of the list between the pipes and is rejected.
C2_EnumSetSecondParseFails ==
    /\ pc = "parsed2" /\ opts = CompactFormat
    /\ doc = ObjectOf(<<EnumSetXY>>)
    /\ out = <<"{", "a", ":", "|", "x", "|", "y", "|", "}">>
    /\ parsed.err = NoErr
    /\ out2 = <<"{", "a", ":", "|", "[", SQ, "x", SQ, ",", " ", SQ, "y", SQ, "]", "|", "}">>
    /\ parsed2.err.kind = "SyntaxError"

\* C3: Pretty output re-parses.  For every document made of objects, arrays
\* of any length and primitive values, the default parser reads the pretty
\* serialization without error into a tree with the same JSON projection.
C3_PrettyReparses ==
    (pc = "parsed" /\ opts = DefaultOptions /\ OnlyPrimitives(doc)) => RoundTripEqual

\* The array [1.5, "hi"]: pretty output separates the elements by line breaks
\* only, and the default parser demands a comma.
C3_TwoElementArrayFails ==
    /\ pc = "parsed" /\ opts = DefaultOptions
    /\ doc = ArrayOf(<<Num15, StrHi>>)
    /\ out = <<"[", NL, " ", " ", " ", " ", "1", ".", "5", NL,
               " ", " ", " ", " ", DQ, "h", "i", DQ, NL, "]">>
    /\ parsed.err.kind = "TonParseError" /\ parsed.err.msg = "Expected comma or ]"

(***************************************************************************)
(* Separator machine: one container text is written twice, once with a     *)
(* comma after every item and once with only some of those commas, the     *)
(* items being separated by white space in both; each text is parsed with  *)
(* the default parser.                                                     *)
(***************************************************************************)
MaxItems == 3

ItemTexts ==
    {<<"1">>, <<DQ, "s", DQ>>, <<"|", "x", "|", "y", "|">>,
     <<"{", "x", ":", " ", "1", " ", "y", ":", " ", "2", "}">>}
ItemKeys == <<"a", "b", "c", "d", "e">>
Separators == {<<" ">>, <<NL>>}

\* the items of a container text, each followed by a comma where commas[i]
RECURSIVE ItemsText(_, _, _, _, _)
ItemsText(keyed, items, commas, sep, i) ==
    IF i > Len(items) THEN <<>>
    ELSE sep \o (IF keyed THEN <<ItemKeys[i], ":", " ">> ELSE <<>>) \o items[i]
         \o (IF commas[i] THEN <<",">> ELSE <<>>)
         \o ItemsText(keyed, items, commas, sep, i + 1)

ObjectText(items, commas, sep) ==
    <<"{">> \o ItemsText(TRUE, items, commas, sep, 1) \o sep \o <<"}">>
ArrayText(items, commas, sep) ==
    <<"[">> \o ItemsText(FALSE, items, commas, sep, 1) \o sep \o <<"]">>

CommaInit ==
    /\ pc = "written"
    /\ \E items \in SeqsUpTo(ItemTexts, MaxItems), sep \in Separators :
         \E commas \in [1..Len(items) -> BOOLEAN] :
            \/ /\ text = ObjectText(items, commas, sep)
               /\ alt = ObjectText(items, [i \in 1..Len(items) |-> TRUE], sep)
            \/ /\ text = ArrayText(items, commas, sep)
               /\ alt = ArrayText(items, [i \in 1..Len(items) |-> TRUE], sep)
    /\ parsed = NotParsed /\ parsed2 = NotParsed
    /\ doc = EmptyNode /\ opts = DefaultOptions
    /\ out = Unset /\ out2 = Unset /\ out3 = Unset /\ lexed = Unset
    /\ vschema = EmptySchema /\ vresult = NewResult

\* TonParser().parse(text), the text with some commas left out
CommaParse ==
    /\ pc = "written"
    /\ parsed' = Parse(text)
    /\ pc' = "read"
    /\ UNCHANGED <<text, lexed, doc, opts, out, out2, parsed2, out3, alt,
                   vschema, vresult>>

\* TonParser().parse(alt), the text with every comma
CommaParseAlt ==
    /\ pc = "read"
    /\ parsed2' = Parse(alt)
    /\ pc' = "both"
    /\ UNCHANGED <<text, lexed, doc, opts, out, parsed, out2, out3, alt,
                   vschema, vresult>>

CommaNext == CommaParse \/ CommaParseAlt

SpecComma == CommaInit /\ [][CommaNext]_vars

SameTrees == parsed.err = NoErr /\ parsed2.err = NoErr /\ parsed.root = parsed2.root

\* C4: Comma optionality in objects.  For every sequence of members, the
\* object text with a comma after each member and the text with any subset of
\* those commas removed both parse, and to identical trees.
C4_ObjectCommasOptional ==
    (pc = "both" /\ Head(text) = "{") => SameTrees

\* Three members, the comma kept only after the second: { a: 1 b: "s", c: |x|y| }
C4_SomeCommasRemoved ==
    /\ pc = "both"
    /\ text = ObjectText(<<<<"1">>, <<DQ, "s", DQ>>, <<"|", "x", "|", "y", "|">>>>,
                         <<FALSE, TRUE, FALSE>>, <<" ">>)
    /\ alt # text
    /\ parsed.err = NoErr
    /\ parsed.root.keys = <<<<"a">>, <<"b">>, <<"c">>>>
    /\ parsed.root.vals[1] = TonValue(PFloat(1, 0), PNone)

\* C5: Comma optionality in arrays.  With the default parser an array whose
\* elements are separated by white space only parses without error to the
\* tree of the comma-separated form.
C5_ArrayCommasOptional ==
    (pc = "both" /\ Head(text) = "[") => SameTrees

\* The array [ 1 "s" ]: the comma-separated form parses, the other is rejected.
C5_SpaceSeparatedArrayFails ==
    /\ pc = "both"
    /\ text = <<"[", " ", "1", " ", DQ, "s", DQ, " ", "]">>
    /\ alt = <<"[", " ", "1", ",", " ", DQ, "s", DQ, ",", " ", "]">>
    /\ parsed2.err = NoErr /\ Len(parsed2.root.vals) = 2
    /\ parsed.err.kind = "TonParseError" /\ parsed.err.msg = "Expected comma or ]"

(***************************************************************************)
(* Enum machine: a pipe-delimited literal is written from a sequence of    *)
(* runs of letters, digits and underscores, then tokenized and parsed.     *)
(***************************************************************************)
MaxEnumValues == 3

EnumRuns == {<<"x">>, <<"a", "b">>, <<"_", "k">>, <<"a", "1">>, <<"B", "2">>,
             <<"1">>, <<"1", "a">>}

RECURSIVE EnumLiteral(_)
EnumLiteral(values) ==
    IF values = <<>> THEN <<"|">>
    ELSE <<"|">> \o Head(values) \o EnumLiteral(Tail(values))

NotLexed == [err |-> NoErr, st |-> StartCursor, tokens |-> <<>>]

EnumInit ==
    /\ pc = "literal"
    /\ alt \in SeqsUpTo(EnumRuns, MaxEnumValues) \ {<<>>}
    /\ text = EnumLiteral(alt)
    /\ lexed = NotLexed
    /\ parsed = NotParsed /\ parsed2 = NotParsed
    /\ doc = EmptyNode /\ opts = DefaultOptions
    /\ out = Unset /\ out2 = Unset /\ out3 = Unset
    /\ vschema = EmptySchema /\ vresult = NewResult

\* TonLexer(text).tokenize()
EnumTokenize ==
    /\ pc = "literal"
    /\ lexed' = Tokenize(text)
    /\ pc' = "tokens"
    /\ UNCHANGED <<text, doc, opts, out, parsed, out2, parsed2, out3, alt,
                   vschema, vresult>>

\* TonParser().parse(text)
EnumParse ==
    /\ pc = "tokens"
    /\ parsed' = Parse(text)
    /\ pc' = "value"
    /\ UNCHANGED <<text, lexed, doc, opts, out, out2, parsed2, out3, alt,
                   vschema, vresult>>

EnumNext == EnumTokenize \/ EnumParse

SpecEnum == EnumInit /\ [][EnumNext]_vars

\* The literal is one enum literal under the scanning rule: every value after
\* the first begins with a letter or an underscore (a pipe followed by
\* anything else closes the literal).
WellFormedEnum(values) == \A i \in 2..Len(values) : IsIdentStart(values[i][1])

EnumPayload(values) == IF Len(values) = 1 THEN PStr(values[1]) ELSE PList(values)

\* C6: Enum cardinality.  For a well-formed literal |v1|...|vn| the lexer
\* emits an ENUM token with payload v1 when n = 1 and an ENUM_SET token with
\* payload [v1..vn] in source order when n >= 2, and the parser yields a value
\* equal to the string, respectively to the ordered list.
C6_EnumCardinality ==
    (pc = "value" /\ WellFormedEnum(alt)) =>
        /\ lexed.err = NoErr
        /\ Len(lexed.tokens) = 2
        /\ lexed.tokens[1].type = (IF Len(alt) = 1 THEN "ENUM" ELSE "ENUM_SET")
        /\ lexed.tokens[1].value = EnumPayload(alt)
        /\ lexed.tokens[2].type = "END_OF_FILE"
        /\ parsed.err = NoErr
        /\ parsed.root.kind = "value"
        /\ parsed.root.value = EnumPayload(alt)

\* The literal |1a|x|_k|: three values, the first one beginning with a digit.
C6_ThreeValueSet ==
    /\ pc = "value"
    /\ alt = <<<<"1", "a">>, <<"x">>, <<"_", "k">>>>
    /\ text = <<"|", "1", "a", "|", "x", "|", "_", "k", "|">>
    /\ lexed.tokens[1].type = "ENUM_SET"
    /\ parsed.root.value.l = alt

(***************************************************************************)
(* GUID machine: a text that starts with a hex digit is tokenized by the   *)
(* lexer, and by the same lexer with the GUID attempt left out.            *)
(***************************************************************************)
MaxCut == 36

\* _next_token without the speculative GUID scan
NextTokenNoGuid(txt, st) ==
    IF IsHexDigit(Peek(txt, st, 0)) THEN ScanWord(txt, st) ELSE NextToken(txt, st)

RECURSIVE TokenizeLoopNoGuid(_, _, _)

TokenizeAppendNoGuid(txt, tokens, r) ==
    IF r.err # NoErr THEN [err |-> r.err, st |-> r.st, tokens |-> tokens]
    ELSE TokenizeLoopNoGuid(txt, r.st, Append(tokens, r.token))

TokenizeAtNoGuid(txt, st1, tokens) ==
    IF IsAtEnd(txt, st1)
    THEN [err |-> NoErr, st |-> st1,
          tokens |-> Append(tokens, CreateToken(st1, "END_OF_FILE", PNone))]
    ELSE TokenizeAppendNoGuid(txt, tokens, NextTokenNoGuid(txt, st1))

TokenizeLoopNoGuid(txt, st, tokens) ==
    TokenizeAtNoGuid(txt, SkipWhitespaceAndComments(txt, st), tokens)

TokenizeNoGuid(txt) == TokenizeLoopNoGuid(txt, StartCursor, <<>>)

HexBases ==
    {GuidText,
     <<"d", "e", "a", "d", "b", "e", "e", "f", "-", "d", "e", "a", "d", "-",
       "b", "e", "e", "f", "-", "d", "e", "a", "d", "-",
       "b", "e", "e", "f", "d", "e", "a", "d", "b", "e", "e", "f">>,
     <<"1", "2", "3", "4", "5", "6", "7", "8", "-", "1", "2", "3", "4", "-",
       "1", "2", "3", "4", "-", "1", "2", "3", "4", "-",
       "1", "2", "3", "4", "a", "b", "c", "d", "9", "0", "1", "2">>,
     <<"F", "a", "c", "e", "0", "f", "f", "1", "-", "0", "x", "F", "F">>,
     <<"0", "x", "F", "F">>, <<"0", "b", "1", "0", "1">>,
     <<"1", ".", "5", "e", "3">>, <<"c", "a", "f", "e">>,
     <<"B", "e", "d", "(", "1", ")">>}
HexSuffixes == {<<>>, <<"0">>, <<" ", "x">>, <<"-">>}

GuidInit ==
    /\ pc = "hex"
    /\ \E base \in HexBases, suffix \in HexSuffixes :
         \E k \in 1..Min(MaxCut, Len(base)) :
            text = SubSeq(base, 1, k) \o suffix
    /\ lexed = NotLexed /\ alt = NotLexed
    /\ parsed = NotParsed /\ parsed2 = NotParsed
    /\ doc = EmptyNode /\ opts = DefaultOptions
    /\ out = Unset /\ out2 = Unset /\ out3 = Unset
    /\ vschema = EmptySchema /\ vresult = NewResult

\* TonLexer(text).tokenize()
GuidTokenize ==
    /\ pc = "hex"
    /\ lexed' = Tokenize(text)
    /\ pc' = "lexed"
    /\ UNCHANGED <<text, doc, opts, out, parsed, out2, parsed2, out3, alt,
                   vschema, vresult>>

\* the same text through the lexer that makes no GUID attempt
GuidTokenizeWithout ==
    /\ pc = "lexed"
    /\ alt' = TokenizeNoGuid(text)
    /\ pc' = "compared"
    /\ UNCHANGED <<text, lexed, doc, opts, out, parsed, out2, parsed2, out3,
                   vschema, vresult>>

GuidNext == GuidTokenize \/ GuidTokenizeWithout

SpecGuid == GuidInit /\ [][GuidNext]_vars

\* the text begins with 8-4-4-4-12 hex digits separated by '-'
GuidShaped(txt) ==
    /\ Len(txt) >= 36
    /\ \A i \in 1..36 : IF i \in {9, 14, 19, 24} THEN txt[i] = "-"
                        ELSE IsHexDigit(txt[i])

KindsAndPayloads(tokens) ==
    [i \in 1..Len(tokens) |-> <<tokens[i].type, tokens[i].value>>]

\* C7: GUID disambiguation.  Text that starts at a hex digit with the
\* 8-4-4-4-12 shape is lexed as one GUID token whose payload is that text;
\* every other text starting with a hex digit yields the token kinds and
\* payloads (and the same failure, if any) that it yields when no GUID
\* attempt is made.
C7_GuidDisambiguation ==
    (pc = "compared" /\ IsHexDigit(text[1])) =>
        IF GuidShaped(text)
        THEN /\ lexed.tokens # <<>>
             /\ lexed.tokens[1].type = "GUID"
             /\ lexed.tokens[1].value = PStr(SubSeq(text, 1, 36))
             /\ (Len(text) = 36 =>
                    /\ lexed.err = NoErr
                    /\ Len(lexed.tokens) = 2
                    /\ lexed.tokens[2].type = "END_OF_FILE")
        ELSE /\ KindsAndPayloads(lexed.tokens) = KindsAndPayloads(alt.tokens)
             /\ lexed.err.kind = alt.err.kind
             /\ lexed.err.msg = alt.err.msg

\* The text 12345678-1234-1234: the attempt reads two groups and a half, gives
\* up, and the text is lexed as three numbers.
C7_FailedAttemptRewinds ==
    /\ pc = "compared"
    /\ text = <<"1", "2", "3", "4", "5", "6", "7", "8", "-", "1", "2", "3", "4",
                "-", "1", "2", "3", "4">>
    /\ ~GuidShaped(text)
    /\ lexed.err = NoErr
    /\ KindsAndPayloads(lexed.tokens) =
          <<<<"NUMBER", PFloat(12345678, 0)>>, <<"NUMBER", PFloat(0 - 1234, 0)>>,
            <<"NUMBER", PFloat(0 - 1234, 0)>>, <<"END_OF_FILE", PNone>>>>

(***************************************************************************)
(* Multi-line string machine: a triple-quoted literal is written from a    *)
(* sequence of lines, each an indent of blanks followed by a body (the     *)
(* empty body makes a blank line), then tokenized.                         *)
(***************************************************************************)
MaxLines == 3
MaxIndent == 3

LineBodies == {<<>>, <<"x", " ", "y">>}
TripleQuote == <<DQ, DQ, DQ>>

LineText(line) == Repeat(<<" ">>, line.indent) \o line.body

RECURSIVE LinesText(_)
LinesText(lines) ==
    IF lines = <<>> THEN <<>>
    ELSE LineText(Head(lines))
         \o (IF Len(lines) > 1 THEN <<NL>> ELSE <<>>) \o LinesText(Tail(lines))

\* the literal: the lines between the quotes, on their own lines when framed
TripleText(lines, framed) ==
    TripleQuote \o (IF framed THEN <<NL>> ELSE <<>>) \o LinesText(lines)
    \o (IF framed THEN <<NL, " ", " ">> ELSE <<>>) \o TripleQuote

DedentInit ==
    /\ pc = "triple"
    /\ alt \in SeqsUpTo([indent : 0..MaxIndent, body : LineBodies], MaxLines) \ {<<>>}
    /\ \E framed \in BOOLEAN : text = TripleText(alt, framed)
    /\ lexed = NotLexed
    /\ parsed = NotParsed /\ parsed2 = NotParsed
    /\ doc = EmptyNode /\ opts = DefaultOptions
    /\ out = Unset /\ out2 = Unset /\ out3 = Unset
    /\ vschema = EmptySchema /\ vresult = NewResult

\* TonLexer(text).tokenize()
DedentTokenize ==
    /\ pc = "triple"
    /\ lexed' = Tokenize(text)
    /\ pc' = "string"
    /\ UNCHANGED <<text, doc, opts, out, parsed, out2, parsed2, out3, alt,
                   vschema, vresult>>

\* TonParser().parse(text)
DedentParse ==
    /\ pc = "string"
    /\ parsed' = Parse(text)
    /\ pc' = "payload"
    /\ UNCHANGED <<text, lexed, doc, opts, out, out2, parsed2, out3, alt,
                   vschema, vresult>>

DedentNext == DedentTokenize \/ DedentParse

SpecDedent == DedentInit /\ [][DedentNext]_vars

\* What the claim expects of the written lines: first and last non-blank line,
\* the common indent m, and the lines kept.
NonBlank(lines) == {i \in 1..Len(lines) : lines[i].body # <<>>}
FirstKept(lines) == CHOOSE i \in NonBlank(lines) : \A j \in NonBlank(lines) : i <= j
LastKept(lines) == CHOOSE i \in NonBlank(lines) : \A j \in NonBlank(lines) : j <= i
CommonIndent(lines) ==
    CHOOSE m \in 0..MaxIndent + 1 :
        /\ \E i \in NonBlank(lines) : lines[i].indent = m
        /\ \A i \in NonBlank(lines) : lines[i].indent >= m

\* C8: Multi-line dedent.  The payload of a triple-quoted string is its
\* content without the leading and trailing all-whitespace lines; with m the
\* least indent of the non-blank lines left, every non-blank line loses
\* exactly m leading characters, the lines are joined by line breaks, and
\* blank interior lines stay in place as blank lines.
C8_MultilineDedent ==
    pc = "payload" =>
        /\ lexed.err = NoErr /\ Len(lexed.tokens) = 2
        /\ lexed.tokens[1].type = "STRING"
        /\ parsed.err = NoErr
        /\ parsed.root.value = lexed.tokens[1].value
        /\ LET got == SplitLines(lexed.tokens[1].value.s, <<>>)
           IN  IF NonBlank(alt) = {} THEN lexed.tokens[1].value.s = <<>>
               ELSE LET first == FirstKept(alt)
                        last == LastKept(alt)
                        m == CommonIndent(alt)
                    IN  /\ Len(got) = last - first + 1
                        /\ \A i \in first..last :
                              IF alt[i].body # <<>>
                              THEN got[i - first + 1] =
                                      Repeat(<<" ">>, alt[i].indent - m) \o alt[i].body
                              ELSE IsBlank(got[i - first + 1])

\* Three framed lines, indented 2 and 3 around a blank line of one blank: the
\* payload keeps the blank line and one blank of the deeper line.
C8_RelativeIndentKept ==
    /\ pc = "payload"
    /\ alt = <<[indent |-> 2, body |-> <<"x", " ", "y">>], [indent |-> 1, body |-> <<>>],
               [indent |-> 3, body |-> <<"x", " ", "y">>]>>
    /\ text[4] = NL
    /\ lexed.tokens[1].value.s = <<"x", " ", "y", NL, " ", NL, " ", "x", " ", "y">>

(***************************************************************************)
(* Typed-object machine: the text  C(n) { members }  or  C { members }  is *)
(* written, parsed with the default parser, and the parsed object is       *)
(* serialized in the compact format.                                       *)
(***************************************************************************)
MaxCount == 11
MaxWritten == 2

ClassNames == {<<"P">>, <<"P", "e", "r", "s", "o", "n">>, <<"F", "a", "c", "e">>,
               <<"B", "e", "d", "_", "2">>}

\* a written member: its key, its source text, the value it denotes and the
\* compact text expected for it
WrittenMembers ==
    {[key |-> <<"n", "a", "m", "e">>,
      src |-> <<"n", "a", "m", "e", ":", " ", DQ, "J", "o", "h", "n", DQ>>,
      value |-> TonValue(PStr(<<"J", "o", "h", "n">>), PNone),
      compact |-> <<"n", "a", "m", "e", ":", DQ, "J", "o", "h", "n", DQ>>],
     [key |-> <<"a", "g", "e">>,
      src |-> <<"a", "g", "e", ":", " ", "1", ".", "5">>,
      value |-> TonValue(PFloat(15, 0 - 1), PNone),
      compact |-> <<"a", "g", "e", ":", "1", ".", "5">>],
     [key |-> <<"o", "n">>,
      src |-> <<"o", "n", ":", " ", "t", "r", "u", "e">>,
      value |-> TonValue(PBool(TRUE), PNone),
      compact |-> <<"o", "n", ":", "t", "r", "u", "e">>]}

Distinct(members) ==
    \A i, j \in 1..Len(members) : i # j => members[i].key # members[j].key

TypedText(c) ==
    c.class
    \o (IF c.counted THEN <<"(">> \o PyIntStr(c.n) \o <<")">> ELSE <<>>)
    \o <<" ", "{">>
    \o Concat([i \in 1..Len(c.members) |->
                  (IF i > 1 THEN <<",">> ELSE <<>>) \o <<" ">> \o c.members[i].src])
    \o <<" ", "}">>

TypedInit ==
    /\ pc = "typed"
    /\ alt \in {c \in [class : ClassNames, counted : BOOLEAN, n : 0..MaxCount,
                      members : SeqsUpTo(WrittenMembers, MaxWritten)] :
                   Distinct(c.members) /\ (~c.counted => c.n = 0)}
    /\ text = TypedText(alt)
    /\ parsed = NotParsed /\ parsed2 = NotParsed
    /\ doc = EmptyNode /\ opts = CompactFormat
    /\ out = Unset /\ out2 = Unset /\ out3 = Unset /\ lexed = NotLexed
    /\ vschema = EmptySchema /\ vresult = NewResult

\* TonParser().parse(text)
TypedParse ==
    /\ pc = "typed"
    /\ parsed' = Parse(text)
    /\ doc' = Parse(text).root
    /\ pc' = "object"
    /\ UNCHANGED <<text, lexed, opts, out, out2, parsed2, out3, alt,
                   vschema, vresult>>

\* TonSerializer(TonSerializeOptions(format='compact')).serialize(document)
TypedSerialize ==
    /\ pc = "object"
    /\ parsed.err = NoErr
    /\ out' = Serialize(TonDocument(doc), opts)
    /\ pc' = "emitted"
    /\ UNCHANGED <<text, lexed, doc, opts, parsed, out2, parsed2, out3, alt,
                   vschema, vresult>>

TypedNext == TypedParse \/ TypedSerialize

SpecTyped == TypedInit /\ [][TypedNext]_vars

\* the members of an object other than the two metadata entries, in order
RECURSIVE MembersOf(_, _)
MembersOf(obj, i) ==
    IF i > Len(obj.keys) THEN <<>>
    ELSE (IF obj.keys[i] \in {ClassNameKey, InstanceIdKey} THEN <<>>
          ELSE <<[key |-> obj.keys[i], value |-> obj.vals[i]]>>)
         \o MembersOf(obj, i + 1)

ExpectedCompact(c) ==
    c.class
    \o (IF c.counted THEN <<"(">> \o PyIntStr(c.n) \o <<")">> ELSE <<>>)
    \o <<"{">>
    \o Join(<<",">>, [i \in 1..Len(c.members) |-> c.members[i].compact])
    \o <<"}">>

MaxArrayLen == 2

KeyA == <<"a">>
KeyB == <<"b">>
KeyC == <<"c">>

StrAbc == TonValue(PStr(<<"a", "b", "c">>), PNone)
Num5 == TonValue(PInt(5), PNone)
ValLeaves == {StrAbc, Num5, BoolTrue}
ValElems == {StrAbc, Num5}
ValArrays == {ArrayOf(e) : e \in SeqsUpTo(ValElems, MaxArrayLen)}

\* an object holding any of the members a, b (leaves) and c (an array)
ValObject(a, b, c) ==
    LET o1 == IF a = <<>> THEN NewTonObject ELSE ObjSet(NewTonObject, KeyA, a[1])
        o2 == IF b = <<>> THEN o1 ELSE ObjSet(o1, KeyB, b[1])
    IN  IF c = <<>> THEN o2 ELSE ObjSet(o2, KeyC, c[1])

ValDocs ==
    {ValObject(a, b, c) : a \in SeqsUpTo(ValLeaves, 1), b \in SeqsUpTo(ValLeaves, 1),
                          c \in SeqsUpTo(ValArrays, 1)}
    \cup ValArrays \cup {StrAbc}

StringSchema == [EmptySchema EXCEPT !.type = "string"]
NumberSchema == [EmptySchema EXCEPT !.type = "number"]
TightString == [StringSchema EXCEPT !.minLength = PInt(5), !.maxLength = PInt(2)]
TightNumber == [NumberSchema EXCEPT !.minimum = PInt(10), !.maximum = PInt(1)]
TightArray ==
    [EmptySchema EXCEPT !.type = "array", !.minItems = PInt(2), !.maxItems = PInt(1),
                        !.items = <<TightNumber>>]

ValSchemas ==
    {[EmptySchema EXCEPT !.type = "object", !.required = <<KeyA, KeyB>>,
                         !.prop_keys = <<KeyA, KeyB>>,
                         !.prop_vals = <<TightString, TightNumber>>],
     [EmptySchema EXCEPT !.type = "object", !.required = <<KeyC, KeyB, KeyA>>,
                         !.prop_keys = <<KeyC, KeyA, KeyB>>,
                         !.prop_vals = <<TightArray, NumberSchema,
                                         [EmptySchema EXCEPT !.type = "boolean"]>>],
     [EmptySchema EXCEPT !.type = "object",
                         !.prop_keys = <<KeyB, KeyC>>,
                         !.prop_vals = <<[StringSchema EXCEPT
                                             !.enum = PList(<<<<"x">>, <<"y">>>>),
                                             !.minLength = PInt(5)],
                                         [EmptySchema EXCEPT !.type = "object",
                                                             !.required = <<KeyA>>]>>],
     TightArray,
     [EmptySchema EXCEPT !.type = "array", !.items = <<TightString>>]}

ValInit ==
    /\ pc = "given"
    /\ doc \in ValDocs
    /\ vschema \in ValSchemas
    /\ vresult = NewResult
    /\ text = Unset /\ lexed = NotLexed /\ alt = Unset
    /\ parsed = NotParsed /\ parsed2 = NotParsed /\ opts = DefaultOptions
    /\ out = Unset /\ out2 = Unset /\ out3 = Unset

\* result = TonValidator().validate(document, schema)
ValValidate ==
    /\ pc = "given"
    /\ vresult' = Validate(TonDocument(doc), vschema)
    /\ pc' = "validated"
    /\ UNCHANGED <<text, lexed, doc, opts, out, parsed, out2, parsed2, out3, alt,
                   vschema>>

ValNext == ValValidate

SpecVal == ValInit /\ [][ValNext]_vars

\* The violations a document holds against a schema, listed constraint by
\* constraint in traversal order: a node's own constraints first (kind, then
\* required names in schema order or item counts, then the string or number
\* limits), then its members in document order, or its elements by index.
Violation(path, msg) == [path |-> path, msg |-> msg]
When(cond, path, msg) == IF cond THEN <<Violation(path, msg)>> ELSE <<>>
Payload(value) == IF value.kind \in {"value", "raw"} THEN value.value ELSE PNone
IsLeaf(value) == value.kind \in {"value", "raw"}
Given(limit) == limit # PNone

RECURSIVE Violations(_, _, _)
Violations(value, sch, path) ==
    LET p == Payload(value)
        Missing(k) == \A i \in 1..Len(value.keys) : value.keys[i] # k
        Described(i) == \E j \in 1..Len(sch.prop_keys) : sch.prop_keys[j] = value.keys[i]
        FragmentFor(i) == sch.prop_vals[CHOOSE j \in 1..Len(sch.prop_keys) :
                                           sch.prop_keys[j] = value.keys[i]]
        n == Len(value.vals)
    IN  CASE sch.type = "object" ->
               IF value.kind # "object" THEN <<Violation(path, "Expected object")>>
               ELSE [i \in 1..Len(SelectSeq(sch.required, Missing)) |->
                        Violation(path, "Missing required property")]
                    \o Concat([i \in 1..Len(value.keys) |->
                                  IF Described(i)
                                  THEN Violations(value.vals[i], FragmentFor(i),
                                                  PropPath(path, value.keys[i]))
                                  ELSE <<>>])
          [] sch.type = "array" ->
               IF value.kind # "array" THEN <<Violation(path, "Expected array")>>
               ELSE When(Given(sch.minItems) /\ NumLess(PInt(n), sch.minItems), path,
                         "Array has too few items")
                    \o When(Given(sch.maxItems) /\ NumLess(sch.maxItems, PInt(n)), path,
                            "Array has too many items")
                    \o (IF sch.items = <<>> THEN <<>>
                        ELSE Concat([i \in 1..n |->
                                        Violations(value.vals[i], sch.items[1],
                                                   ItemPath(path, i - 1))]))
          [] sch.type = "string" ->
               IF ~(IsLeaf(value) /\ p.vt = "str")
               THEN <<Violation(path, "Expected string")>>
               ELSE IF Given(sch.enum) /\ \A i \in 1..Len(sch.enum.l) : sch.enum.l[i] # p.s
               THEN <<Violation(path, "Value is not in enum")>>
               ELSE When(Given(sch.minLength) /\ NumLess(PInt(Len(p.s)), sch.minLength), path,
                         "String length is less than minimum")
                    \o When(Given(sch.maxLength) /\ NumLess(sch.maxLength, PInt(Len(p.s))), path,
                            "String length exceeds maximum")
          [] sch.type = "number" ->
               IF ~(IsLeaf(value) /\ p.vt \in {"num", "bool"})
               THEN <<Violation(path, "Expected number")>>
               ELSE When(Given(sch.minimum) /\ NumLess(p, sch.minimum), path,
                         "Value is less than minimum")
                    \o When(Given(sch.maximum) /\ NumLess(sch.maximum, p), path,
                            "Value exceeds maximum")
          [] sch.type = "boolean" ->
               When(~(IsLeaf(value) /\ p.vt = "bool"), path, "Expected boolean")
          [] sch.type = "null" ->
               When(~(IsLeaf(value) /\ p.vt = "none"), path, "Expected null")
          [] OTHER -> <<>>

MaxFragments == 2

Fragments ==
    {<<"1">>, <<DQ, "s", DQ>>, <<"x">>, <<"}">>, <<>>,
     <<"@">>, <<DQ, "x">>, <<DQ, "a", BS>>, <<DQ, DQ, DQ, "a">>, <<"|">>,
     <<"1", "e">>, <<"0", "x">>, <<"-", "0", "b">>, <<"-">>,
     <<"A", "(", "1", "e", "9", "9", "9", ")", "{", "}">>}

FragmentsText(context, frags) ==
    CASE context = "object" ->
           ObjectText(frags, [i \in 1..Len(frags) |-> i < Len(frags)], <<" ">>)
      [] context = "array" ->
           ArrayText(frags, [i \in 1..Len(frags) |-> i < Len(frags)], <<" ">>)
      [] OTHER -> Join(<<" ">>, frags)

FailInit ==
    /\ pc = "text"
    /\ alt \in SeqsUpTo(Fragments, MaxFragments) \ {<<>>}
    /\ \E context \in {"top", "object", "array"} : text = FragmentsText(context, alt)
    /\ lexed = NotLexed
    /\ parsed = NotParsed /\ parsed2 = NotParsed
    /\ doc = EmptyNode /\ opts = DefaultOptions
    /\ out = Unset /\ out2 = Unset /\ out3 = Unset
    /\ vschema = EmptySchema /\ vresult = NewResult

\* TonLexer(text).tokenize()
FailTokenize ==
    /\ pc = "text"
    /\ lexed' = Tokenize(text)
    /\ pc' = "tokens"
    /\ UNCHANGED <<text, doc, opts, out, parsed, out2, parsed2, out3, alt,
                   vschema, vresult>>

\* TonParser().parse(text)
FailParse ==
    /\ pc = "tokens"
    /\ parsed' = Parse(text)
    /\ pc' = "parsed"
    /\ UNCHANGED <<text, lexed, doc, opts, out, out2, parsed2, out3, alt,
                   vschema, vresult>>

FailNext == FailTokenize \/ FailParse

SpecFail == FailInit /\ [][FailNext]_vars

\* C11: Failure kind of parse.  For every input text, parse either returns a
\* document or fails with a TonParseError that carries a line and a column; no
\* other kind of failure escapes, lexical violations included.
C11_ParseFailureKind ==
    pc = "parsed" =>
        \/ parsed.err = NoErr
        \/ parsed.err.kind = "TonParseError" /\ parsed.err.line >= 1

\* The object { a: @ }: the lexer's SyntaxError for the character @ leaves
\* parse as it is, not as a TonParseError.
C11_UnexpectedCharacterEscapes ==
    /\ pc = "parsed"
    /\ text = <<"{", " ", "a", ":", " ", "@", " ", "}">>
    /\ lexed.err.kind = "SyntaxError"
    /\ parsed.err.kind = "SyntaxError"
    /\ parsed.err.msg = "Unexpected character"

(***************************************************************************)
(* Line machine: a text is written as a sequence of tokens, each preceded  *)
(* by a gap of white space or a comment; some tokens are strings that span *)
(* two lines.  The text is tokenized, then parsed.                         *)
(***************************************************************************)
MaxTokens == 3

LineGaps ==
    {<<" ">>, <<NL>>, <<"/", "*", NL, "*", "/">>, <<"/", "/", "c", NL>>}
LinePieces ==
    {<<"[">>, <<"1">>, <<BQ, "x", NL, "y", BQ>>,
     <<DQ, DQ, DQ, "x", NL, "y", DQ, DQ, DQ>>}

\* the text of the first k items, each a pair <<gap, piece>>
RECURSIVE PiecesText(_, _)
PiecesText(items, k) ==
    IF k = 0 THEN <<>>
    ELSE PiecesText(items, k - 1) \o items[k][1] \o items[k][2]

\* the text that precedes the i-th piece
BeforePiece(items, i) == PiecesText(items, i - 1) \o items[i][1]

\* the 1-based number of the line on which the text after prefix goes on
LineAfter(prefix) == 1 + Cardinality({j \in 1..Len(prefix) : prefix[j] = NL})

LineInit ==
    /\ pc = "text"
    /\ alt \in SeqsUpTo(LineGaps \X LinePieces, MaxTokens) \ {<<>>}
    /\ text = PiecesText(alt, Len(alt))
    /\ lexed = NotLexed
    /\ parsed = NotParsed /\ parsed2 = NotParsed
    /\ doc = EmptyNode /\ opts = DefaultOptions
    /\ out = Unset /\ out2 = Unset /\ out3 = Unset
    /\ vschema = EmptySchema /\ vresult = NewResult

\* TonLexer(text).tokenize()
LineTokenize ==
    /\ pc = "text"
    /\ lexed' = Tokenize(text)
    /\ pc' = "tokens"
    /\ UNCHANGED <<text, doc, opts, out, parsed, out2, parsed2, out3, alt,
                   vschema, vresult>>

\* TonParser().parse(text)
LineParse ==
    /\ pc = "tokens"
    /\ parsed' = Parse(text)
    /\ pc' = "parsed"
    /\ UNCHANGED <<text, lexed, doc, opts, out, out2, parsed2, out3, alt,
                   vschema, vresult>>

LineNext == LineTokenize \/ LineParse

SpecLine == LineInit /\ [][LineNext]_vars

\* C12: Error locality.  The line recorded on each token equals the 1-based
\* number of the input line on which the token starts, whatever precedes it:
\* white space, line and block comments, strings spanning several lines.
C12_TokenLines ==
    (pc = "parsed" /\ lexed.err = NoErr /\ Len(lexed.tokens) = Len(alt) + 1) =>
        \A i \in 1..Len(alt) : lexed.tokens[i].line = LineAfter(BeforePiece(alt, i))

\* Bracket, a backtick string over lines 1 and 2, a line break, the number 1
\* on line 3: the number's token and the parse error raised at it say line 2.
C12_LineAfterBacktickString ==
    /\ pc = "parsed"
    /\ text = <<" ", "[", " ", BQ, "x", NL, "y", BQ, NL, "1">>
    /\ Len(lexed.tokens) = 4
    /\ lexed.tokens[3].value = PFloat(1, 0)
    /\ LineAfter(BeforePiece(alt, 3)) = 3
    /\ lexed.tokens[3].line = 2
    /\ parsed.err = Err("TonParseError", "Expected comma or ]", 2, lexed.tokens[3].column)

(***************************************************************************)
(* Lexer-instance machine: one TonLexer is built on a text of up to        *)
(* MaxWords words separated by blanks, and tokenize() is called on it up   *)
(* to MaxCalls times.  lexed holds the instance (its cursor and its token  *)
(* list) with the failure of the last call, pc the number of calls made.   *)
(***************************************************************************)
MaxWords == 3
MaxCalls == 2

LexerWords ==
    {<<"a">>, <<"1">>, <<DQ, "s", DQ>>, <<"|", "x", "|">>, <<"{">>,
     <<"/", "*", "c", "*", "/">>, <<"/", "/", "c", NL>>, <<"@">>}

LexerInit ==
    /\ pc = 0
    /\ alt \in SeqsUpTo(LexerWords, MaxWords)
    /\ text = Join(<<" ">>, alt)
    /\ lexed = NotLexed
    /\ parsed = NotParsed /\ parsed2 = NotParsed
    /\ doc = EmptyNode /\ opts = DefaultOptions
    /\ out = Unset /\ out2 = Unset /\ out3 = Unset
    /\ vschema = EmptySchema /\ vresult = NewResult

\* lexer.tokenize(), on the instance as the calls before left it
LexerTokenize ==
    /\ pc < MaxCalls
    /\ lexed' = TokenizeLoop(text, lexed.st, lexed.tokens)
    /\ pc' = pc + 1
    /\ UNCHANGED <<text, doc, opts, out, parsed, out2, parsed2, out3, alt,
                   vschema, vresult>>

LexerNext == LexerTokenize

SpecLexer == LexerInit /\ [][LexerNext]_vars

EndOfFileCount(tokens) ==
    Cardinality({i \in 1..Len(tokens) : tokens[i].type = "END_OF_FILE"})

\* C13: End-of-file invariant.  Every sequence returned by tokenize, on the
\* first call and on any later call on the same instance, contains exactly
\* one END_OF_FILE token, which is the last element and has no payload, and
\* contains no COMMENT token.
C13_EndOfFileOnce ==
    (pc >= 1 /\ lexed.err = NoErr) =>
        /\ EndOfFileCount(lexed.tokens) = 1
        /\ lexed.tokens[Len(lexed.tokens)].type = "END_OF_FILE"
        /\ lexed.tokens[Len(lexed.tokens)].value = PNone
        /\ \A i \in 1..Len(lexed.tokens) : lexed.tokens[i].type # "COMMENT"

\* The text a 1: the second call returns IDENTIFIER, NUMBER and then two
\* END_OF_FILE tokens.
C13_SecondCallAppendsAgain ==
    /\ pc = 2
    /\ text = <<"a", " ", "1">>
    /\ lexed.err = NoErr
    /\ [i \in 1..Len(lexed.tokens) |-> lexed.tokens[i].type]
          = <<"IDENTIFIER", "NUMBER", "END_OF_FILE", "END_OF_FILE">>

(***************************************************************************)
(* Trailing-content machine: a text is written as one complete value       *)
(* followed by up to MaxTrailing further words, separated by blanks; it is *)
(* tokenized, then parsed with the default parser.  alt holds the value,   *)
(* the number of tokens it is made of, and the words after it.             *)
(***************************************************************************)
MaxTrailing == 2

CompleteValues ==
    {<<<<"1">>, 1>>,
     <<<<DQ, "s", DQ>>, 1>>,
     <<<<"|", "x", "|", "y", "|">>, 1>>,
     <<<<"$", DQ, "s", DQ>>, 2>>,
     <<<<"{", "}">>, 2>>,
     <<<<"{", "a", ":", " ", "1", "}">>, 5>>,
     <<<<"[", "1", ",", " ", "2", "]">>, 5>>,
     <<<<"A", "(", "2", ")", "{", "}">>, 6>>}

TrailingWords ==
    {<<"2">>, <<"x">>, <<"}">>, <<"]">>, <<",">>, <<"{", "}">>, <<DQ, "t", DQ>>,
     <<NL>>, <<"/", "*", "c", "*", "/">>, <<"/", "/", "c">>}

TrailInit ==
    /\ pc = "text"
    /\ \E v \in CompleteValues, rest \in SeqsUpTo(TrailingWords, MaxTrailing) :
          /\ alt = [value |-> v[1], count |-> v[2], rest |-> rest]
          /\ text = Join(<<" ">>, <<v[1]>> \o rest)
    /\ lexed = NotLexed
    /\ parsed = NotParsed /\ parsed2 = NotParsed
    /\ doc = EmptyNode /\ opts = DefaultOptions
    /\ out = Unset /\ out2 = Unset /\ out3 = Unset
    /\ vschema = EmptySchema /\ vresult = NewResult

\* TonLexer(text).tokenize()
TrailTokenize ==
    /\ pc = "text"
    /\ lexed' = Tokenize(text)
    /\ pc' = "tokens"
    /\ UNCHANGED <<text, doc, opts, out, parsed, out2, parsed2, out3, alt,
                   vschema, vresult>>

\* TonParser().parse(text)
TrailParse ==
    /\ pc = "tokens"
    /\ parsed' = Parse(text)
    /\ pc' = "parsed"
    /\ UNCHANGED <<text, lexed, doc, opts, out, out2, parsed2, out3, alt,
                   vschema, vresult>>

TrailNext == TrailTokenize \/ TrailParse

SpecTrail == TrailInit /\ [][TrailNext]_vars

\* the token that follows the top-level value
TokenAfterValue == lexed.tokens[alt.count + 1]

\* C14: Full consumption.  parse returns a document only if the token that
\* follows the top-level value is END_OF_FILE; if any other token remains,
\* parse fails with 'Unexpected content after parsing' located at that token
\* and returns no document.
C14_FullConsumption ==
    pc = "parsed" =>
        /\ lexed.err = NoErr
        /\ IF TokenAfterValue.type = "END_OF_FILE"
           THEN parsed.err = NoErr /\ parsed.root # EmptyNode
           ELSE /\ parsed.err = Err("TonParseError", "Unexpected content after parsing",
                                    TokenAfterValue.line, TokenAfterValue.column)
                /\ parsed.root = EmptyNode

\* The text {a: 1}, a line break and }: the closing brace on line 2 is
\* reported, and no document is returned.
C14_TrailingBraceRejected ==
    /\ pc = "parsed"
    /\ text = <<"{", "a", ":", " ", "1", "}", " ", NL, " ", "}">>
    /\ Len(lexed.tokens) = 7
    /\ TokenAfterValue.type = "RIGHT_BRACE"
    /\ parsed.err.msg = "Unexpected content after parsing"
    /\ parsed.err.line = 2
    /\ parsed.root = EmptyNode

(***************************************************************************)
(* Date-hint machine: an ISO date is written as a date-hinted string       *)
(* literal, alone or as the member value of an object, then tokenized and  *)
(* parsed with the default parser.  alt holds the written year, month and  *)
(* day.                                                                    *)
(***************************************************************************)
MaxDay == 28

DateYears == {1999, 2024}
DateMonths == 1..12
DateDays == 1..MaxDay

TwoDigits(n) == (IF n < 10 THEN <<"0">> ELSE <<>>) \o DigitsOf(n)
IsoDate(d) == DigitsOf(d.year) \o <<"-">> \o TwoDigits(d.month) \o <<"-">>
              \o TwoDigits(d.day)

DateLiteral(d) == <<"^", DQ>> \o IsoDate(d) \o <<DQ>>

\* a host date object, named by its year, month and day
PDate(d) == [PNone EXCEPT !.vt = "date", !.s = IsoDate(d)]

DateInit ==
    /\ pc = "text"
    /\ alt \in [year : DateYears, month : DateMonths, day : DateDays]
    /\ \/ text = DateLiteral(alt)
       \/ text = <<"{", " ", "v", "a", "l", "u", "e", ":", " ">> \o DateLiteral(alt)
                 \o <<" ", "}">>
    /\ lexed = NotLexed
    /\ parsed = NotParsed /\ parsed2 = NotParsed
    /\ doc = EmptyNode /\ opts = DefaultOptions
    /\ out = Unset /\ out2 = Unset /\ out3 = Unset
    /\ vschema = EmptySchema /\ vresult = NewResult

\* TonLexer(text).tokenize()
DateTokenize ==
    /\ pc = "text"
    /\ lexed' = Tokenize(text)
    /\ pc' = "tokens"
    /\ UNCHANGED <<text, doc, opts, out, parsed, out2, parsed2, out3, alt,
                   vschema, vresult>>

\* TonParser().parse(text)
DateParse ==
    /\ pc = "tokens"
    /\ parsed' = Parse(text)
    /\ pc' = "parsed"
    /\ UNCHANGED <<text, lexed, doc, opts, out, out2, parsed2, out3, alt,
                   vschema, vresult>>

DateNext == DateTokenize \/ DateParse

SpecDate == DateInit /\ [][DateNext]_vars

\* the value node the hinted literal was parsed to
HintedNode ==
    IF parsed.root.kind = "object" THEN ObjGet(parsed.root, <<"v", "a", "l", "u", "e">>)
    ELSE parsed.root

\* C15: Date hint.  Parsing a date-hinted string literal ^"<ISO date>" yields
\* a value that is a date object carrying the written year, month and day,
\* not a plain string.
C15_DateHintYieldsDate ==
    pc = "parsed" =>
        /\ parsed.err = NoErr
        /\ HintedNode.value = PDate(alt)

\* { value: ^"2024-01-01" }: the member holds the string 2024-01-01 with the
\* type hint date.
C15_DateHintKeepsString ==
    /\ pc = "parsed"
    /\ alt = [year |-> 2024, month |-> 1, day |-> 1]
    /\ parsed.root.kind = "object"
    /\ parsed.err = NoErr
    /\ HintedNode = TonValue(PStr(<<"2", "0", "2", "4", "-", "0", "1", "-", "0", "1">>),
                             PStr(HintDate))

(***************************************************************************)
(* Comment machine: a text is written as two to MaxPieces tokens with a    *)
(* gap (nothing or a blank) between neighbours, and a second text is the   *)
(* same with one comment put into one of the gaps, before or after what    *)
(* the gap holds.  Both texts are tokenized and parsed.  alt holds the     *)
(* written parts, out the text with the comment and out2 its tokens.       *)
(***************************************************************************)
MaxPieces == 3

CommentPieces ==
    {<<"a">>, <<"1">>, <<DQ, "s", DQ>>, <<"|", "x", "|">>, <<"d", "e", "a", "d">>,
     <<"[">>, <<"]">>}
CommentGaps == {<<>>, <<" ">>}
Comments ==
    {<<"/", "*", "c", "*", "/">>, <<"/", "*", NL, "*", "*", "/">>,
     <<"/", "/", "c", "*", "/", NL>>}

\* pieces[from..], each preceded by its gap; the comment goes into gap number at
RECURSIVE GappedText(_, _, _, _, _, _)
GappedText(pieces, gaps, from, at, comment, before) ==
    IF from > Len(pieces) THEN <<>>
    ELSE (IF from - 1 # at THEN gaps[from - 1]
          ELSE IF before THEN comment \o gaps[from - 1]
          ELSE gaps[from - 1] \o comment)
         \o pieces[from] \o GappedText(pieces, gaps, from + 1, at, comment, before)

PlainText(w) == w.pieces[1] \o GappedText(w.pieces, w.gaps, 2, 0, <<>>, TRUE)
CommentedText(w) ==
    w.pieces[1] \o GappedText(w.pieces, w.gaps, 2, w.at, w.comment, w.before)

CommentInit ==
    /\ pc = "text"
    /\ \E n \in 2..MaxPieces :
          alt \in [pieces : [1..n -> CommentPieces], gaps : [1..(n - 1) -> CommentGaps],
                   at : 1..(n - 1), comment : Comments, before : BOOLEAN]
    /\ text = PlainText(alt)
    /\ out = CommentedText(alt)
    /\ lexed = NotLexed /\ out2 = NotLexed
    /\ parsed = NotParsed /\ parsed2 = NotParsed
    /\ doc = EmptyNode /\ opts = DefaultOptions
    /\ out3 = Unset
    /\ vschema = EmptySchema /\ vresult = NewResult

\* TonLexer(text).tokenize()
CommentTokenize ==
    /\ pc = "text"
    /\ lexed' = Tokenize(text)
    /\ pc' = "tokens"
    /\ UNCHANGED <<text, doc, opts, out, parsed, out2, parsed2, out3, alt,
                   vschema, vresult>>

\* TonLexer(out).tokenize(), the text with the comment
CommentTokenizeAlt ==
    /\ pc = "tokens"
    /\ out2' = Tokenize(out)
    /\ pc' = "both"
    /\ UNCHANGED <<text, lexed, doc, opts, out, parsed, parsed2, out3, alt,
                   vschema, vresult>>

\* TonParser().parse(text)
CommentParse ==
    /\ pc = "both"
    /\ parsed' = Parse(text)
    /\ pc' = "parsed"
    /\ UNCHANGED <<text, lexed, doc, opts, out, out2, parsed2, out3, alt,
                   vschema, vresult>>

\* TonParser().parse(out)
CommentParseAlt ==
    /\ pc = "parsed"
    /\ parsed2' = Parse(out)
    /\ pc' = "done"
    /\ UNCHANGED <<text, lexed, doc, opts, out, parsed, out2, out3, alt,
                   vschema, vresult>>

CommentNext == CommentTokenize \/ CommentTokenizeAlt \/ CommentParse \/ CommentParseAlt

SpecComment == CommentInit /\ [][CommentNext]_vars

\* the written pieces are the tokens of the text: the comment goes between
\* two adjacent tokens
PiecesAreTokens == lexed.err = NoErr /\ Len(lexed.tokens) = Len(alt.pieces) + 1

\* C16: Comments never affect semantics.  For every text that tokenizes,
\* putting a block comment, or a line comment ended by a line break, between
\* two adjacent tokens yields a token sequence with the same kinds and
\* payloads in the same order, hence the same parsed tree.
C16_CommentsIgnored ==
    (pc = "done" /\ PiecesAreTokens) =>
        /\ out2.err = NoErr
        /\ KindsAndPayloads(out2.tokens) = KindsAndPayloads(lexed.tokens)
        /\ parsed2.err.kind = parsed.err.kind
        /\ parsed2.err.msg = parsed.err.msg
        /\ parsed2.root = parsed.root

\* [1] and [1//c*/<LF>]: the line comment that follows the number directly
\* changes neither the three tokens nor the array of one element.
C16_CommentAfterNumber ==
    /\ pc = "done"
    /\ text = <<"[", "1", "]">>
    /\ out = <<"[", "1", "/", "/", "c", "*", "/", NL, "]">>
    /\ PiecesAreTokens
    /\ KindsAndPayloads(out2.tokens)
          = <<<<"LEFT_BRACKET", PStr(<<"[">>)>>, <<"NUMBER", PFloat(1, 0)>>,
              <<"RIGHT_BRACKET", PStr(<<"]">>)>>, <<"END_OF_FILE", PNone>>>>
    /\ parsed2.err = NoErr
    /\ parsed2.root = ArrAdd(NewTonArray, TonValue(PFloat(1, 0), PNone))

(***************************************************************************)
(* Descent machine: a document whose members and elements are leaves,      *)
(* objects or arrays is validated against a schema whose fragments ask     *)
(* for objects and arrays below the root.                                  *)
(***************************************************************************)
KeyX == <<"x">>

ObjX == ObjSet(NewTonObject, KeyX, StrAbc)
DescentElems == {Num5, NewTonObject, ObjX, NewTonArray, ArrayOf(<<Num5>>)}
DescentArrays == {ArrayOf(e) : e \in SeqsUpTo(DescentElems, MaxArrayLen)}

DescentDocs ==
    {ValObject(a, b, c) : a \in SeqsUpTo(DescentElems, 1),
                          b \in SeqsUpTo({Num5, StrAbc}, 1),
                          c \in SeqsUpTo(DescentArrays \cup {Num5, ObjX}, 1)}
    \cup DescentArrays \cup {Num5}

ObjectNeedsX ==
    [EmptySchema EXCEPT !.type = "object", !.required = <<KeyX, KeyA>>,
                        !.prop_keys = <<KeyX>>, !.prop_vals = <<TightNumber>>]
ArrayOfObjects == [TightArray EXCEPT !.items = <<ObjectNeedsX>>]
ArrayOfArrays == [TightArray EXCEPT !.items = <<TightArray>>]

DescentSchemas ==
    {[EmptySchema EXCEPT !.type = "object", !.required = <<KeyA, KeyB>>,
                         !.prop_keys = <<KeyA, KeyB, KeyC>>,
                         !.prop_vals = <<ObjectNeedsX, TightNumber, ArrayOfObjects>>],
     [EmptySchema EXCEPT !.type = "object",
                         !.prop_keys = <<KeyC, KeyB, KeyA>>,
                         !.prop_vals = <<ArrayOfArrays, TightString, TightArray>>],
     ArrayOfObjects,
     ArrayOfArrays}

DescentInit ==
    /\ pc = "given"
    /\ doc \in DescentDocs
    /\ vschema \in DescentSchemas
    /\ vresult = NewResult
    /\ text = Unset /\ lexed = NotLexed /\ alt = Unset
    /\ parsed = NotParsed /\ parsed2 = NotParsed /\ opts = DefaultOptions
    /\ out = Unset /\ out2 = Unset /\ out3 = Unset

\* result = TonValidator().validate(document, schema)
DescentValidate ==
    /\ pc = "given"
    /\ vresult' = Validate(TonDocument(doc), vschema)
    /\ pc' = "validated"
    /\ UNCHANGED <<text, lexed, doc, opts, out, parsed, out2, parsed2, out3, alt,
                   vschema>>

DescentNext == DescentValidate

SpecDescent == DescentInit /\ [][DescentNext]_vars

\* The nodes of a document that a schema describes, each with its path, its
\* fragment and the path of its parent (<<>> for the root, else <<path>>):
\* the described members of an object under an object fragment, and the
\* elements of an array under an array fragment that has an items fragment.
RECURSIVE DescribedNodes(_, _, _, _)
DescribedNodes(value, sch, path, parent) ==
    {[path |-> path, value |-> value, sch |-> sch, parent |-> parent]}
    \cup (IF sch.type = "object" /\ value.kind = "object"
          THEN UNION {DescribedNodes(value.vals[i],
                                     sch.prop_vals[IndexOf(sch.prop_keys, value.keys[i])],
                                     PropPath(path, value.keys[i]), <<path>>) :
                      i \in {j \in 1..Len(value.keys) :
                                IndexOf(sch.prop_keys, value.keys[j]) # 0}}
          ELSE IF sch.type = "array" /\ value.kind = "array" /\ sch.items # <<>>
          THEN UNION {DescribedNodes(value.vals[i], sch.items[1],
                                     ItemPath(path, i - 1), <<path>>) :
                      i \in 1..Len(value.vals)}
          ELSE {})

\* the node is not of the kind its fragment asks for
FailsKindCheck(n) ==
    \/ n.sch.type = "object" /\ n.value.kind # "object"
    \/ n.sch.type = "array" /\ n.value.kind # "array"

\* q is the path of something below the node at p
Below(p, q) ==
    /\ Len(q) > Len(p)
    /\ SubSeq(q, 1, Len(p)) = p
    /\ p = <<>> \/ q[Len(p) + 1] \in {".", "["}

ErrorsAt(p) == SelectSeq(vresult.errors, LAMBDA e : e.path = p)
ErrorsWithin(p) == SelectSeq(vresult.errors, LAMBDA e : e.path = p \/ Below(p, e.path))

\* C17: Validator descent rule.  A node that is not of the kind its fragment
\* asks for gets exactly one error (Expected object or Expected array) and
\* nothing is recorded at that path for required names or item counts nor
\* below it for members or items; every sibling of such a node still gets
\* the errors that validating the sibling on its own records.
C17_DescentStopsAtMismatch ==
    pc = "validated" =>
        \A n \in DescribedNodes(TonDocument(doc), vschema, <<>>, <<>>) :
            FailsKindCheck(n) =>
                /\ Len(ErrorsAt(n.path)) = 1
                /\ ErrorsAt(n.path)[1].msg
                      = (IF n.sch.type = "object" THEN "Expected object"
                         ELSE "Expected array")
                /\ \A i \in 1..Len(vresult.errors) : ~Below(n.path, vresult.errors[i].path)
                /\ \A s \in DescribedNodes(TonDocument(doc), vschema, <<>>, <<>>) :
                      (s.parent = n.parent /\ s.path # n.path) =>
                          ErrorsWithin(s.path)
                             = ValidateValue(s.value, s.sch, s.path, NewResult).errors

\* Member a holds a number where an object with required names is asked
\* for, member c holds an object where an array is asked for, and the
\* sibling b breaks both of its limits: one error each for a and c, none
\* for the required names of a or the counts of c, and both errors of b.
C17_MismatchBesideFailingSibling ==
    /\ pc = "validated"
    /\ doc = ValObject(<<Num5>>, <<Num5>>, <<ObjX>>)
    /\ vschema.required = <<KeyA, KeyB>>
    /\ [i \in 1..Len(vresult.errors) |-> <<vresult.errors[i].path, vresult.errors[i].msg>>]
          = <<<<<<"a">>, "Expected object">>,
              <<<<"b">>, "Value is less than minimum">>,
              <<<<"b">>, "Value exceeds maximum">>,
              <<<<"c">>, "Expected array">>>>

(***************************************************************************)
(* Termination machine: the lexer's main loop is run one iteration at a    *)
(* time over a text written from up to MaxChunks chunks, then the          *)
(* end-of-file token is appended and the tokens are parsed.  lexed holds   *)
(* the lexer's cursor and tokens between iterations, alt the parse         *)
(* options.                                                                *)
(***************************************************************************)
MaxChunks == 3

TermChunks ==
    {<<"{">>, <<"}">>, <<"[">>, <<"]">>, <<":">>, <<",">>, <<" ">>, <<NL>>,
     <<"a">>, <<"1">>, <<DQ>>, <<"|">>, <<"/", "*">>, <<"d", "e">>,
     <<"-">>, <<DQ, BS>>, <<"0", "x">>, <<"^">>, <<"(">>}
TermTexts == {Concat(w) : w \in SeqsUpTo(TermChunks, MaxChunks)}
TermOptions ==
    {DefaultParseOptions, [DefaultParseOptions EXCEPT !.allow_trailing_comma = TRUE]}

TermInit ==
    /\ pc = "lexing"
    /\ text \in TermTexts
    /\ alt \in TermOptions
    /\ lexed = NotLexed
    /\ parsed = NotParsed /\ parsed2 = NotParsed
    /\ doc = EmptyNode /\ opts = DefaultOptions
    /\ out = Unset /\ out2 = Unset /\ out3 = Unset
    /\ vschema = EmptySchema /\ vresult = NewResult

\* the outcome of one iteration that found a character at st1: r is what
\* _next_token gave
TermAppend(lx, r) ==
    IF r.err # NoErr THEN [err |-> r.err, st |-> r.st, tokens |-> lx.tokens]
    ELSE [err |-> NoErr, st |-> r.st, tokens |-> Append(lx.tokens, r.token)]

\* st1 is the cursor after white space and comments
TermIteration(txt, lx, st1) ==
    IF IsAtEnd(txt, st1) THEN [lx EXCEPT !.st = st1]
    ELSE TermAppend(lx, NextToken(txt, st1))

\* one iteration of the loop in tokenize: the loop test holds
TermIterate ==
    /\ pc = "lexing"
    /\ ~IsAtEnd(text, lexed.st)
    /\ lexed' = TermIteration(text, lexed, SkipWhitespaceAndComments(text, lexed.st))
    /\ pc' = IF lexed'.err # NoErr THEN "failed" ELSE "lexing"
    /\ UNCHANGED <<text, doc, opts, out, parsed, out2, parsed2, out3, alt,
                   vschema, vresult>>

\* the loop test fails: END_OF_FILE is appended and tokenize returns
TermEndOfFile ==
    /\ pc = "lexing"
    /\ IsAtEnd(text, lexed.st)
    /\ lexed' = [lexed EXCEPT !.tokens = Append(@, CreateToken(lexed.st, "END_OF_FILE",
                                                              PNone))]
    /\ pc' = "lexed"
    /\ UNCHANGED <<text, doc, opts, out, parsed, out2, parsed2, out3, alt,
                   vschema, vresult>>

\* the parser runs over the tokens
TermParse ==
    /\ pc = "lexed"
    /\ parsed' = ParseTokens(lexed, alt)
    /\ pc' = "parsed"
    /\ UNCHANGED <<text, lexed, doc, opts, out, out2, parsed2, out3, alt,
                   vschema, vresult>>

TermNext == TermIterate \/ TermEndOfFile \/ TermParse

SpecTerm == TermInit /\ [][TermNext]_vars

\* one iteration of the object loop entered at cursor cur ends in a failure
\* or leaves the cursor further on
ObjectIterationAdvances(tokens, cur, options) ==
    \/ PPeek(tokens, cur).type \notin {"IDENTIFIER", "STRING"}
    \/ LET v == ParseValue(tokens, Annotation(tokens, PAdvance(tokens, cur)).cur, options)
       IN  v.err # NoErr \/ AfterMember(tokens, v.cur) > cur

\* the same for one iteration of the array loop
ArrayIterationAdvances(tokens, cur, options) ==
    LET v == ParseValue(tokens, cur, options)
    IN  \/ v.err # NoErr
        \/ AfterElement(tokens, v.cur, options).err # NoErr
        \/ AfterElement(tokens, v.cur, options).cur > cur

\* the cursors at which the body of the object loop, or of the array loop, runs
ObjectLoopRuns(tokens, cur) ==
    ~PCheck(tokens, cur, "RIGHT_BRACE") /\ ~PIsAtEnd(tokens, cur)
ArrayLoopRuns(tokens, cur) ==
    ~PCheck(tokens, cur, "RIGHT_BRACKET") /\ ~PIsAtEnd(tokens, cur)

\* a value parsed at cursor cur fails or leaves the cursor further on, and
\* never past the last token
ValueAdvances(tokens, cur, options) ==
    LET v == ParseValue(tokens, cur, options)
    IN  v.err # NoErr \/ (v.cur > cur /\ v.cur < Len(tokens))

ParserLoopsAdvance ==
    \A cur \in 0..(Len(lexed.tokens) - 1) :
        /\ ValueAdvances(lexed.tokens, cur, alt)
        /\ ObjectLoopRuns(lexed.tokens, cur)
              => ObjectIterationAdvances(lexed.tokens, cur, alt)
        /\ ArrayLoopRuns(lexed.tokens, cur)
              => ArrayIterationAdvances(lexed.tokens, cur, alt)

\* what is left to do: the characters not yet read, then the end-of-file
\* token, then the parse
StepsLeft ==
    CASE pc = "lexing" -> Len(text) - lexed.st.position + 2
      [] pc = "lexed" -> 1
      [] OTHER -> 0

\* C18: Termination.  Every step of tokenize and parse lowers StepsLeft,
\* which is never negative: an iteration of the lexer's main loop fails or
\* moves the position forward, never past the end of the text, so a text
\* of n characters takes at most n iterations.  Over the tokens of a
\* text, a value parsed at any cursor, and an iteration of the parser's
\* object loop or array loop entered at any cursor, fails or moves the
\* cursor forward.  The iterations taken one by one give what tokenize
\* gives, and parse returns or fails on it.
C18_Termination ==
    /\ [][StepsLeft' < StepsLeft]_vars
    /\ [](StepsLeft >= 0)
    /\ [](pc = "lexed" => lexed = Tokenize(text) /\ ParserLoopsAdvance)
    /\ [](pc = "failed" => Tokenize(text).err = lexed.err)
    /\ [](pc = "parsed" => parsed = ParseWith(text, alt))

\* The text [ 1 ] takes three iterations of the main loop, one token each,
\* and one iteration of the array loop, and parses to an array.
C18_ThreeIterationsThenParsed ==
    /\ pc = "parsed"
    /\ text = <<"[", "1", "]">>
    /\ Len(lexed.tokens) = 4
    /\ lexed.st.position = 3
    /\ parsed.err = NoErr
    /\ parsed.root.kind = "array"

(***************************************************************************)
(* Number machine: a Value holding one payload, at the root or as the      *)
(* member a of an object, is validated against a fragment of type number   *)
(* whose minimum and maximum are each absent or given.                     *)
(***************************************************************************)
NumberPayloads ==
    {PStr(<<"a", "b", "c">>), PStr(<<"5">>), PBool(TRUE), PBool(FALSE), PNone,
     PList(<<<<"x">>, <<"y">>>>), PInt(0), PInt(5), PInt(0 - 3), PInt(10),
     PFloat(55, 0 - 1), PFloat(1, 0)}
NumberLimits == {PNone, PInt(0), PInt(5), PFloat(55, 0 - 1), PInt(10)}
NumberFragments ==
    {[NumberSchema EXCEPT !.minimum = lo, !.maximum = hi] :
        lo \in NumberLimits, hi \in NumberLimits}

NumberInit ==
    /\ pc = "given"
    /\ \E p \in NumberPayloads :
          doc \in {TonValue(p, PNone), ObjSet(NewTonObject, KeyA, TonValue(p, PNone))}
    /\ \E f \in NumberFragments :
          vschema = IF doc.kind = "object"
                    THEN [EmptySchema EXCEPT !.type = "object", !.prop_keys = <<KeyA>>,
                                             !.prop_vals = <<f>>]
                    ELSE f
    /\ vresult = NewResult
    /\ text = Unset /\ lexed = NotLexed /\ alt = Unset
    /\ parsed = NotParsed /\ parsed2 = NotParsed /\ opts = DefaultOptions
    /\ out = Unset /\ out2 = Unset /\ out3 = Unset

\* result = TonValidator().validate(document, schema)
NumberValidate ==
    /\ pc = "given"
    /\ vresult' = Validate(TonDocument(doc), vschema)
    /\ pc' = "validated"
    /\ UNCHANGED <<text, lexed, doc, opts, out, parsed, out2, parsed2, out3, alt,
                   vschema>>

NumberNext == NumberValidate

SpecNumber == NumberInit /\ [][NumberNext]_vars

\* the Value under the number fragment, its fragment and its path
NumberValue == IF doc.kind = "object" THEN doc.vals[1] ELSE doc
NumberFragment == IF doc.kind = "object" THEN vschema.prop_vals[1] ELSE vschema
NumberPath == IF doc.kind = "object" THEN KeyA ELSE <<>>

ErrorList == [i \in 1..Len(vresult.errors) |->
                 Violation(vresult.errors[i].path, vresult.errors[i].msg)]

\* C19: Validator number rule.  A payload that is not a number (a string, a
\* boolean, null or a list) yields exactly one Expected number error and no
\* minimum or maximum message; a number v yields the less-than-minimum
\* error iff minimum is given and v < minimum, and the exceeds-maximum
\* error iff maximum is given and v > maximum, each whatever the other.
C19_NumberRule ==
    pc = "validated" =>
        ErrorList
           = (IF NumberValue.value.vt # "num"
              THEN <<Violation(NumberPath, "Expected number")>>
              ELSE When(Given(NumberFragment.minimum)
                           /\ NumLess(NumberValue.value, NumberFragment.minimum),
                        NumberPath, "Value is less than minimum")
                   \o When(Given(NumberFragment.maximum)
                              /\ NumLess(NumberFragment.maximum, NumberValue.value),
                           NumberPath, "Value exceeds maximum"))

\* The boolean true under a number fragment with minimum 5: no Expected
\* number error is recorded; the boolean is compared as the number 1 and
\* reported as less than the minimum.
C19_BooleanTakenAsNumber ==
    /\ pc = "validated"
    /\ doc = BoolTrue
    /\ vschema = [NumberSchema EXCEPT !.minimum = PInt(5)]
    /\ ErrorList = <<Violation(<<>>, "Value is less than minimum")>>

(***************************************************************************)
(* Omission machine: an object whose members are nulls, numbers, empty     *)
(* and non-empty objects and arrays is serialized under every setting of   *)
(* the three omit flags, in the compact and in the pretty format, and the  *)
(* text is parsed again.                                                   *)
(***************************************************************************)
OmitValues ==
    {NullValue, Int42, NewTonObject, NewTonArray, ObjectOf(<<NullValue>>),
     ObjectOf(<<Int42, NewTonArray>>), ArrayOf(<<Int42>>), ArrayOf(<<NullValue, Int42>>),
     ArrayOf(<<NewTonObject>>), ArrayOf(<<Int42, NewTonArray>>)}
OmitDocs == {ObjectOf(m) : m \in SeqsUpTo(OmitValues, MaxMembers)}
OmitOptions ==
    {TonSerializeOptions([DefaultArgs EXCEPT !.format = f, !.omit_nulls = n,
                                             !.omit_undefined = u,
                                             !.omit_empty_collections = e]) :
        f \in {"compact", "pretty"}, n \in BOOLEAN, u \in BOOLEAN, e \in BOOLEAN}

OmitInit ==
    /\ pc = "built"
    /\ doc \in OmitDocs
    /\ opts \in OmitOptions
    /\ out = Unset /\ out2 = Unset /\ out3 = Unset
    /\ parsed = NotParsed /\ parsed2 = NotParsed
    /\ text = Unset /\ lexed = NotLexed /\ alt = Unset
    /\ vschema = EmptySchema /\ vresult = NewResult

\* s = TonSerializer(options).serialize(document)
OmitSerialize ==
    /\ pc = "built"
    /\ out' = Serialize(TonDocument(doc), opts)
    /\ pc' = "serialized"
    /\ UNCHANGED <<text, lexed, doc, opts, parsed, out2, parsed2, out3, alt,
                   vschema, vresult>>

\* TonParser().parse(s)
OmitParse ==
    /\ pc = "serialized"
    /\ parsed' = Parse(out)
    /\ pc' = "parsed"
    /\ UNCHANGED <<text, lexed, doc, opts, out, out2, parsed2, out3, alt,
                   vschema, vresult>>

OmitNext == OmitSerialize \/ OmitParse

SpecOmit == OmitInit /\ [][OmitNext]_vars

\* the omission rule for one member or element
RuleOmits(node, o) ==
    \/ o.omit_nulls /\ node.kind = "value" /\ node.value = PNone
    \/ o.omit_empty_collections /\ node.kind \in {"object", "array"} /\ node.vals = <<>>

\* the document without the members and the elements the rule omits, at
\* every depth
RECURSIVE WithoutOmitted(_, _)
WithoutOmitted(node, o) ==
    LET kept == SelectSeq([i \in 1..Len(node.vals) |-> i],
                          LAMBDA i : ~RuleOmits(node.vals[i], o))
    IN  IF node.kind \notin {"object", "array"} THEN node
        ELSE [node EXCEPT
                 !.keys = IF node.kind = "object"
                          THEN [j \in 1..Len(kept) |-> node.keys[kept[j]]]
                          ELSE <<>>,
                 !.vals = [j \in 1..Len(kept) |-> WithoutOmitted(node.vals[kept[j]], o)]]

OmitNothing(o) == [o EXCEPT !.omit_nulls = FALSE, !.omit_empty_collections = FALSE]

\* C20: Serializer omission rule.  The text written under the omit flags is
\* the text of the document without its null members and elements (omit
\* nulls) and without its empty objects and arrays, members or elements
\* (omit empty collections); with neither flag set, whatever omit undefined
\* says, nothing is left out: the compact text parses back to the whole
\* document.
C20_OmissionRule ==
    /\ pc # "built" =>
          out = Serialize(WithoutOmitted(TonDocument(doc), opts), OmitNothing(opts))
    /\ (pc = "parsed" /\ opts = OmitNothing(opts) /\ opts.format_style = "compact") =>
          parsed.err = NoErr /\ JsonEq(ToJson(parsed.root), ToJson(TonDocument(doc)))

\* The document {a: [null, 42]} with omit nulls set, compact: the null that
\* is an element of the array is written.
C20_NullElementEmitted ==
    /\ pc = "serialized"
    /\ doc = ObjectOf(<<ArrayOf(<<NullValue, Int42>>)>>)
    /\ opts.omit_nulls /\ opts.format_style = "compact"
    /\ out = <<"{", "a", ":", "[", "n", "u", "l", "l", ",", "4", "2", "]", "}">>

(***************************************************************************)
(* Member machine: an object, with or without a class name and a count,    *)
(* is given up to MaxMembers members whose names may begin with or hold    *)
(* an underscore, and is serialized in the compact format under the omit   *)
(* flags.  alt holds the written members.                                  *)
(***************************************************************************)
MemberKeys == {<<"a">>, <<"_", "x">>, <<"_">>, <<"b", "_">>}
MemberValues == {Int42, StrHi, NullValue, NewTonObject}
MemberLists ==
    {m \in SeqsUpTo(MemberKeys \X MemberValues, MaxMembers) :
        \A i, j \in 1..Len(m) : i # j => m[i][1] # m[j][1]}

\* obj.set(key, value) for each written member in turn
RECURSIVE WithMembers(_, _)
WithMembers(obj, m) ==
    IF m = <<>> THEN obj
    ELSE WithMembers(ObjSet(obj, m[1][1], m[1][2]), Tail(m))

MemberObjects ==
    {NewTonObject, SetClassName(NewTonObject, PStr(ClassP)),
     SetInstanceCount(SetClassName(NewTonObject, PStr(ClassP)), PInt(0))}
MemberOptions ==
    {TonSerializeOptions([DefaultArgs EXCEPT !.format = "compact", !.omit_nulls = n,
                                             !.omit_empty_collections = e]) :
        n \in BOOLEAN, e \in BOOLEAN}

MemberInit ==
    /\ pc = "built"
    /\ alt \in MemberLists
    /\ \E o \in MemberObjects : doc = WithMembers(o, alt)
    /\ opts \in MemberOptions
    /\ out = Unset /\ out2 = Unset /\ out3 = Unset
    /\ parsed = NotParsed /\ parsed2 = NotParsed
    /\ text = Unset /\ lexed = NotLexed
    /\ vschema = EmptySchema /\ vresult = NewResult

\* s = TonSerializer(options).serialize(document)
MemberSerialize ==
    /\ pc = "built"
    /\ out' = Serialize(TonDocument(doc), opts)
    /\ pc' = "serialized"
    /\ UNCHANGED <<text, lexed, doc, opts, parsed, out2, parsed2, out3, alt,
                   vschema, vresult>>

MemberNext == MemberSerialize

SpecMember == MemberInit /\ [][MemberNext]_vars

\* the written members that are to appear: all but those the flags omit
\* (the two metadata keys are not among the written members)
MembersToAppear ==
    SelectSeq(alt, LAMBDA m : ~RuleOmits(m[2], opts))

\* C21: Members left out by the serializer.  The compact text of an object
\* holds, in order, every written member that the omit flags do not remove,
\* whatever its name, each as name, separator and value, after the class
\* prefix; the two metadata keys are the only other entries left out.
C21_OnlyMetadataLeftOut ==
    pc = "serialized" =>
        out = ClassPrefix(doc) \o <<"{">>
              \o Join(<<",">>, [i \in 1..Len(MembersToAppear) |->
                                  MembersToAppear[i][1] \o opts.property_separator
                                  \o SerializeValue(MembersToAppear[i][2], 0, opts)])
              \o <<"}">>

\* The object with the members _x = 42 and a = 42 and no class name: the
\* text holds a alone; the member _x is left out.
C21_UnderscoreMemberLeftOut ==
    /\ pc = "serialized"
    /\ alt = <<<<<<"_", "x">>, Int42>>, <<<<"a">>, Int42>>>>
    /\ doc.class_name = PNone
    /\ out = <<"{", "a", ":", "4", "2", "}">>

(***************************************************************************)
(* Container machine: one container that is empty, or is an object whose   *)
(* only member is a null, is placed at the root, as the member a of an     *)
(* object, as the member a of an object that is itself a member, or as     *)
(* the element of an array, and the document is serialized under the omit  *)
(* flags, both format styles and the presets.  alt holds the container     *)
(* and its place.                                                          *)
(***************************************************************************)
Containers ==
    {NewTonArray, NewTonObject, SetClassName(NewTonObject, PStr(ClassP)),
     SetInstanceCount(SetClassName(NewTonObject, PStr(ClassP)), PInt(0)),
     ObjectOf(<<NullValue>>)}
Places == {"root", "member", "inner member", "element"}

Placed(c, place) ==
    CASE place = "root" -> c
      [] place = "member" -> ObjectOf(<<c>>)
      [] place = "inner member" -> ObjectOf(<<ObjectOf(<<c>>)>>)
      [] OTHER -> ArrayOf(<<c>>)

ContainerOptions == OmitOptions \cup {CompactPreset, PrettyPreset, OptimizedPreset}

ContainerInit ==
    /\ pc = "built"
    /\ alt \in [container : Containers, place : Places]
    /\ doc = Placed(alt.container, alt.place)
    /\ opts \in ContainerOptions
    /\ out = Unset /\ out2 = Unset /\ out3 = Unset
    /\ parsed = NotParsed /\ parsed2 = NotParsed
    /\ text = Unset /\ lexed = NotLexed
    /\ vschema = EmptySchema /\ vresult = NewResult

\* s = TonSerializer(options).serialize(document)
ContainerSerialize ==
    /\ pc = "built"
    /\ out' = Serialize(TonDocument(doc), opts)
    /\ pc' = "serialized"
    /\ UNCHANGED <<text, lexed, doc, opts, parsed, out2, parsed2, out3, alt,
                   vschema, vresult>>

ContainerNext == ContainerSerialize

SpecContainer == ContainerInit /\ [][ContainerNext]_vars

\* the container has nothing to write: an array without elements, or an
\* object all of whose members other than the metadata the flags omit
NothingToWrite(c, o) ==
    IF c.kind = "array" THEN c.vals = <<>>
    ELSE \A i \in 1..Len(c.keys) :
            c.keys[i] \in {ClassNameKey, InstanceIdKey} \/ RuleOmits(c.vals[i], o)

\* the text asked for: the class prefix if any and the two brackets
EmptyText(c) ==
    IF c.kind = "array" THEN <<"[", "]">> ELSE ClassPrefix(c) \o <<"{", "}">>

\* the first place at which pat occurs in s (0 when it does not)
FindIn(s, pat) ==
    LET at == {i \in 1..(Len(s) - Len(pat) + 1) : SubSeq(s, i, i + Len(pat) - 1) = pat}
    IN  IF at = {} THEN 0 ELSE CHOOSE i \in at : \A j \in at : i <= j

\* s with the first occurrence of pat replaced by new
Replaced(s, pat, new) ==
    SubSeq(s, 1, FindIn(s, pat) - 1) \o new
    \o SubSeq(s, FindIn(s, pat) + Len(pat), Len(s))

\* the text of the document with the number 42 in the container's place
TextAround == Serialize(Placed(Int42, alt.place), opts)

\* the member or element is itself left out by the flags
PlaceOmitted == alt.place # "root" /\ RuleOmits(alt.container, opts)

\* C22: Empty containers.  Under every option set and in both styles, a
\* container with nothing to write is written as {} after its class prefix,
\* or as [], with nothing between the brackets, wherever it stands: the
\* text of the document is the text of the same document holding a number
\* in the container's place, with {} or [] put for the number.
C22_EmptyContainers ==
    (pc = "serialized" /\ NothingToWrite(alt.container, opts) /\ ~PlaceOmitted) =>
        out = Replaced(TextAround, <<"4", "2">>, EmptyText(alt.container))

\* The empty array at the root in the pretty style, the omit flags off:
\* the text is [, two line breaks and ].
C22_EmptyArrayHoldsLineBreaks ==
    /\ pc = "serialized"
    /\ doc = NewTonArray
    /\ opts.format_style = "pretty" /\ ~opts.omit_empty_collections
    /\ out = <<"[", NL, NL, "]">>

(***************************************************************************)
(* Object machine: a TonObject is created and up to MaxOps operations are  *)
(* applied to it: class_name and instance_count are assigned (None         *)
(* included), and keys, the two metadata keys among them, are set through  *)
(* set and through subscript assignment, and deleted.  alt holds the       *)
(* operations applied so far.                                              *)
(***************************************************************************)
MaxOps == 3

OpKeys == {KeyA, ClassNameKey, InstanceIdKey}
OpValues == {Int42, Raw(PStr(<<"Q">>))}
OpClassNames == {PNone, PStr(ClassP), PStr(<<"Q">>)}
OpCounts == {PNone, PInt(0), PInt(1)}

ObjectInit ==
    /\ pc = "object"
    /\ doc = NewTonObject
    /\ alt = <<>>
    /\ opts = DefaultOptions
    /\ out = Unset /\ out2 = Unset /\ out3 = Unset
    /\ parsed = NotParsed /\ parsed2 = NotParsed
    /\ text = Unset /\ lexed = NotLexed
    /\ vschema = EmptySchema /\ vresult = NewResult

\* obj.class_name = v
ObjectAssignClassName ==
    /\ Len(alt) < MaxOps
    /\ \E v \in OpClassNames :
          /\ doc' = SetClassName(doc, v)
          /\ alt' = Append(alt, <<"class_name", v>>)
    /\ UNCHANGED <<pc, text, lexed, opts, out, parsed, out2, parsed2, out3,
                   vschema, vresult>>

\* obj.instance_count = v
ObjectAssignInstanceCount ==
    /\ Len(alt) < MaxOps
    /\ \E v \in OpCounts :
          /\ doc' = SetInstanceCount(doc, v)
          /\ alt' = Append(alt, <<"instance_count", v>>)
    /\ UNCHANGED <<pc, text, lexed, opts, out, parsed, out2, parsed2, out3,
                   vschema, vresult>>

\* obj.set(key, value)
ObjectSet ==
    /\ Len(alt) < MaxOps
    /\ \E k \in OpKeys, v \in OpValues :
          /\ doc' = ObjSet(doc, k, v)
          /\ alt' = Append(alt, <<"set", k>>)
    /\ UNCHANGED <<pc, text, lexed, opts, out, parsed, out2, parsed2, out3,
                   vschema, vresult>>

\* obj[key] = value
ObjectSetItem ==
    /\ Len(alt) < MaxOps
    /\ \E k \in OpKeys, v \in OpValues :
          /\ doc' = ObjSet(doc, k, v)
          /\ alt' = Append(alt, <<"setitem", k>>)
    /\ UNCHANGED <<pc, text, lexed, opts, out, parsed, out2, parsed2, out3,
                   vschema, vresult>>

\* obj.delete(key)
ObjectDelete ==
    /\ Len(alt) < MaxOps
    /\ \E k \in OpKeys :
          /\ doc' = ObjDelete(doc, k)
          /\ alt' = Append(alt, <<"delete", k>>)
    /\ UNCHANGED <<pc, text, lexed, opts, out, parsed, out2, parsed2, out3,
                   vschema, vresult>>

ObjectNext ==
    \/ ObjectAssignClassName
    \/ ObjectAssignInstanceCount
    \/ ObjectSet
    \/ ObjectSetItem
    \/ ObjectDelete

SpecObject == ObjectInit /\ [][ObjectNext]_vars

\* C23: Object dual view consistency.  After any operations, the key
\* _className reads as class_name when class_name is set and is absent
\* when class_name is None, and the key _instanceId reads as
\* instance_count when instance_count is set and is absent when it is
\* None.
C23_DualView ==
    pc = "object" =>
        /\ doc.class_name # PNone => ObjGet(doc, ClassNameKey) = Raw(doc.class_name)
        /\ doc.class_name = PNone => ~ObjHas(doc, ClassNameKey)
        /\ doc.instance_count # PNone
              => ObjGet(doc, InstanceIdKey) = Raw(doc.instance_count)
        /\ doc.instance_count = PNone => ~ObjHas(doc, InstanceIdKey)

\* class_name = 'P' followed by delete('_className'): class_name is still P
\* and the key is gone.
C23_DeletedKeyLeavesClassName ==
    /\ pc = "object"
    /\ alt = <<<<"class_name", PStr(ClassP)>>, <<"delete", ClassNameKey>>>>
    /\ doc.class_name = PStr(ClassP)
    /\ ~ObjHas(doc, ClassNameKey)

(***************************************************************************)
(* Re-emission machine: an enum literal, alone or as the member a of an    *)
(* object, is parsed and the document is serialized again.  alt holds the  *)
(* written values.                                                         *)
(***************************************************************************)
ReemitInit ==
    /\ pc = "literal"
    /\ alt \in SeqsUpTo(EnumRuns, MaxEnumValues) \ {<<>>}
    /\ text \in {EnumLiteral(alt), <<"{", "a", ":">> \o EnumLiteral(alt) \o <<"}">>}
    /\ opts \in {CompactFormat, DefaultOptions}
    /\ lexed = NotLexed
    /\ parsed = NotParsed /\ parsed2 = NotParsed
    /\ doc = EmptyNode
    /\ out = Unset /\ out2 = Unset /\ out3 = Unset
    /\ vschema = EmptySchema /\ vresult = NewResult

\* document = TonParser().parse(text)
ReemitParse ==
    /\ pc = "literal"
    /\ parsed' = Parse(text)
    /\ pc' = IF parsed'.err = NoErr THEN "value" ELSE "failed"
    /\ UNCHANGED <<text, lexed, doc, opts, out, out2, parsed2, out3, alt,
                   vschema, vresult>>

\* TonSerializer(options).serialize(document)
ReemitSerialize ==
    /\ pc = "value"
    /\ out' = Serialize(TonDocument(parsed.root), opts)
    /\ pc' = "serialized"
    /\ UNCHANGED <<text, lexed, doc, opts, parsed, out2, parsed2, out3, alt,
                   vschema, vresult>>

ReemitNext == ReemitParse \/ ReemitSerialize

SpecReemit == ReemitInit /\ [][ReemitNext]_vars

\* C24: Enum re-emission after parsing.  A well-formed enum literal parses,
\* and the parsed document is written with the literal in pipe form, the
\* same values in the same order: alone, the text written is the literal;
\* as a member, the compact text is the text that was parsed.
C24_EnumReemitted ==
    WellFormedEnum(alt) =>
        /\ pc # "failed"
        /\ (pc = "serialized" /\ (opts = CompactFormat \/ text = EnumLiteral(alt)))
              => out = text

\* The literal |x|a1| parses to a value holding the list of its two values
\* under the hint enum; it is written as the host rendering of the list
\* between two pipes.
C24_EnumSetWrittenAsList ==
    /\ pc = "serialized"
    /\ text = <<"|", "x", "|", "a", "1", "|">>
    /\ parsed.root = TonValue(PList(<<<<"x">>, <<"a", "1">>>>), PStr(HintEnum))
    /\ out = <<"|", "[", SQ, "x", SQ, ",", " ", SQ, "a", "1", SQ, "]", "|">>

(***************************************************************************)
(* String machine: a string value, with or without the hint string, is     *)
(* serialized under both quote styles, type hints emitted or not, and the  *)
(* text written is tokenized.  alt holds the payload.                      *)
(***************************************************************************)
MaxStringLen == 3

StringChars == {"a", "n", DQ, SQ, BS, NL}
StringPayloads == SeqsUpTo(StringChars, MaxStringLen)
StringHints == {PNone, PStr(HintString)}
StringOptions ==
    {TonSerializeOptions([DefaultArgs EXCEPT !.format = "compact", !.quote_style = q,
                                             !.include_type_hints = h]) :
        q \in {"double", "single"}, h \in BOOLEAN}

StringInit ==
    /\ pc = "built"
    /\ alt \in StringPayloads
    /\ \E h \in StringHints : doc = TonValue(PStr(alt), h)
    /\ opts \in StringOptions
    /\ out = Unset /\ out2 = Unset /\ out3 = Unset
    /\ parsed = NotParsed /\ parsed2 = NotParsed
    /\ text = Unset /\ lexed = NotLexed
    /\ vschema = EmptySchema /\ vresult = NewResult

\* s = TonSerializer(options).serialize(TonDocument(TonValue(payload, hint)))
StringSerialize ==
    /\ pc = "built"
    /\ out' = Serialize(TonDocument(doc), opts)
    /\ pc' = "serialized"
    /\ UNCHANGED <<text, lexed, doc, opts, parsed, out2, parsed2, out3, alt,
                   vschema, vresult>>

\* tokens = TonLexer(s).tokenize()
StringTokenize ==
    /\ pc = "serialized"
    /\ lexed' = Tokenize(out)
    /\ pc' = "tokens"
    /\ UNCHANGED <<text, doc, opts, out, parsed, out2, parsed2, out3, alt,
                   vschema, vresult>>

StringNext == StringSerialize \/ StringTokenize

SpecString == StringInit /\ [][StringNext]_vars

\* a type-hint prefix is emitted for the value
PrefixEmitted == opts.include_type_hints /\ doc.type_hint # PNone

\* C25: String literal round trip.  Under both quote styles, with or without
\* an emitted prefix, the text written is the prefix if any and the payload
\* between two active quotes with every backslash and every active quote
\* preceded by a backslash, and the lexer reads it back as the hint token if
\* any, one STRING token whose payload is the original string, and the end
\* of file.
C25_StringRoundTrip ==
    /\ pc \in {"serialized", "tokens"} =>
          out = (IF PrefixEmitted THEN <<"$">> ELSE <<>>)
                \o <<Quote(opts)>> \o Escaped(alt, Quote(opts)) \o <<Quote(opts)>>
    /\ pc = "tokens" =>
          /\ lexed.err = NoErr
          /\ Len(lexed.tokens) = (IF PrefixEmitted THEN 3 ELSE 2)
          /\ PrefixEmitted => lexed.tokens[1].type = "STRING_HINT"
          /\ KindsAndPayloads(lexed.tokens)[Len(lexed.tokens) - 1] = <<"STRING", PStr(alt)>>
          /\ lexed.tokens[Len(lexed.tokens)].type = "END_OF_FILE"

\* The string a'n under the hint string, single quotes, hints emitted: the
\* text is $'a'n' with the inner quote as it was, and the lexer fails on it.
C25_HintedQuoteNotEscaped ==
    /\ pc = "tokens"
    /\ alt = <<"a", SQ, "n">>
    /\ opts.quote_style = "single" /\ PrefixEmitted
    /\ out = <<"$", SQ, "a", SQ, "n", SQ>>
    /\ lexed.err # NoErr

(***************************************************************************)
(* Open comment machine: a text that tokenizes on its own is followed by   *)
(* the two characters that open a block comment and by up to MaxBody       *)
(* characters, which may or may not hold the closing pair, and the whole   *)
(* is tokenized.  alt holds the text before the comment and the body.      *)
(***************************************************************************)
MaxBody == 3

OpenPrefixes ==
    {<<>>, <<"a", " ">>, <<"{", "a", ":", "1", "}">>, <<"1", NL>>,
     <<"/", "*", "x", "*", "/">>, <<"[", "]", " ">>}
BodyChars == {"x", " ", "*", "/", NL}
OpenBodies == SeqsUpTo(BodyChars, MaxBody)

OpenInit ==
    /\ pc = "text"
    /\ alt \in [prefix : OpenPrefixes, body : OpenBodies]
    /\ text = alt.prefix \o <<"/", "*">> \o alt.body
    /\ lexed = NotLexed
    /\ opts = DefaultOptions
    /\ doc = EmptyNode
    /\ out = Unset /\ out2 = Unset /\ out3 = Unset
    /\ parsed = NotParsed /\ parsed2 = NotParsed
    /\ vschema = EmptySchema /\ vresult = NewResult

\* tokens = TonLexer(text).tokenize()
OpenTokenize ==
    /\ pc = "text"
    /\ lexed' = Tokenize(text)
    /\ pc' = IF lexed'.err = NoErr THEN "tokens" ELSE "failed"
    /\ UNCHANGED <<text, doc, opts, out, parsed, out2, parsed2, out3, alt,
                   vschema, vresult>>

OpenNext == OpenTokenize

SpecOpen == OpenInit /\ [][OpenNext]_vars

\* the body holds no closing pair: the end of input comes before any */
Unterminated(body) ==
    \A i \in 1..(Len(body) - 1) : ~(body[i] = "*" /\ body[i + 1] = "/")

\* C26: Unterminated block comment.  When a block comment is opened and the
\* end of input is reached before a closing pair, tokenize fails with a lex
\* error and returns no token sequence.
C26_UnterminatedCommentFails ==
    Unterminated(alt.body) => pc \in {"text", "failed"}

\* The text a /*x: the comment is never closed, and tokenize returns the
\* identifier and the end of file without an error.
C26_OpenCommentTokenizes ==
    /\ pc = "tokens"
    /\ text = <<"a", " ", "/", "*", "x">>
    /\ lexed.err = NoErr
    /\ KindsAndPayloads(lexed.tokens)
          = <<<<"IDENTIFIER", PStr(<<"a">>)>>, <<"END_OF_FILE", PNone>>>>

(***************************************************************************)
(* Sign machine: a number literal in the decimal, hexadecimal or binary    *)
(* form, of up to MaxDigits leading digits, is written with or without a   *)
(* leading minus and tokenized.  alt holds the parts of the literal.       *)
(***************************************************************************)
MaxDigits == 2

DecimalRuns == SeqsUpTo({"0", "1", "9"}, MaxDigits) \ {<<>>}
DecimalRests == {<<>>, <<".", "5">>, <<".", "2", "5">>, <<"e", "1">>, <<"E", "-", "1">>,
                 <<".", "5", "e", "+", "2">>}
HexRuns == SeqsUpTo({"0", "1", "a", "F"}, MaxDigits) \ {<<>>}
BinaryRuns == SeqsUpTo({"0", "1"}, MaxDigits + 1) \ {<<>>}

SignLiterals ==
    [base : {10}, prefix : {<<>>}, digits : DecimalRuns, rest : DecimalRests,
     neg : BOOLEAN]
    \cup [base : {16}, prefix : {<<"0", "x">>, <<"0", "X">>}, digits : HexRuns,
          rest : {<<>>}, neg : BOOLEAN]
    \cup [base : {2}, prefix : {<<"0", "b">>, <<"0", "B">>}, digits : BinaryRuns,
          rest : {<<>>}, neg : BOOLEAN]

\* the literal without its sign
UnsignedText(l) == l.prefix \o l.digits \o l.rest

SignInit ==
    /\ pc = "text"
    /\ alt \in SignLiterals
    /\ text = (IF alt.neg THEN <<"-">> ELSE <<>>) \o UnsignedText(alt)
    /\ lexed = NotLexed
    /\ opts = DefaultOptions
    /\ doc = EmptyNode
    /\ out = Unset /\ out2 = Unset /\ out3 = Unset
    /\ parsed = NotParsed /\ parsed2 = NotParsed
    /\ vschema = EmptySchema /\ vresult = NewResult

\* tokens = TonLexer(text).tokenize()
SignTokenize ==
    /\ pc = "text"
    /\ lexed' = Tokenize(text)
    /\ pc' = IF lexed'.err = NoErr THEN "tokens" ELSE "failed"
    /\ UNCHANGED <<text, doc, opts, out, parsed, out2, parsed2, out3, alt,
                   vschema, vresult>>

SignNext == SignTokenize

SpecSign == SignInit /\ [][SignNext]_vars

\* the number a payload stands for, as mantissa and exponent of ten
NumberOf(p) == <<p.m, p.e>>

\* the value of the unsigned literal in its base
UnsignedValue(l) ==
    IF l.base = 10 THEN NumberOf(PyFloat(UnsignedText(l)).value)
    ELSE NumberOf(PInt(HexDigitsVal(l.digits, l.base, 0)))

Negation(n) == <<0 - n[1], n[2]>>

\* C27: Sign of number literals.  A literal is read as one NUMBER token
\* whose payload is the value of the literal text in its base; with a
\* leading minus the payload is the negation of the payload of the same
\* literal without the minus, in the decimal, hexadecimal and binary forms
\* alike.
C27_SignKept ==
    pc # "text" =>
        /\ pc = "tokens"
        /\ Len(lexed.tokens) = 2
        /\ lexed.tokens[1].type = "NUMBER"
        /\ NumberOf(lexed.tokens[1].value)
              = (IF alt.neg THEN Negation(UnsignedValue(alt)) ELSE UnsignedValue(alt))
        /\ alt.neg => NumberOf(lexed.tokens[1].value)
                         = Negation(NumberOf(Tokenize(UnsignedText(alt)).tokens[1].value))

\* The literal -0x1F is read as the NUMBER 31: the minus is consumed and
\* the value is that of 0x1F.
C27_NegativeHexReadPositive ==
    /\ pc = "tokens"
    /\ text = <<"-", "0", "x", "1", "F">>
    /\ lexed.tokens[1].type = "NUMBER"
    /\ lexed.tokens[1].value = PInt(31)

(***************************************************************************)
(* Layout machine: documents of objects and arrays nested up to three      *)
(* deep, none of the arrays empty, are serialized in the pretty style      *)
(* under two indent sizes.                                                 *)
(***************************************************************************)
MaxWidth == 2

LayoutLeaves == {Int42, NewTonObject}
LayoutOver(S) ==
    {ObjectOf(m) : m \in SeqsUpTo(S, MaxWidth) \ {<<>>}}
    \cup {ArrayOf(e) : e \in SeqsUpTo(S, MaxWidth) \ {<<>>}}
LayoutOnce == LayoutOver(LayoutLeaves)
LayoutTwice == LayoutOver(LayoutLeaves \cup LayoutOnce)
LayoutThrice == {ObjectOf(<<x>>) : x \in LayoutTwice} \cup {ArrayOf(<<x>>) : x \in LayoutTwice}
LayoutDocs == LayoutLeaves \cup LayoutOnce \cup LayoutTwice \cup LayoutThrice
LayoutOptions ==
    {TonSerializeOptions([DefaultArgs EXCEPT !.format = "pretty", !.indent_size = n]) :
        n \in {2, 4}}

LayoutInit ==
    /\ pc = "built"
    /\ doc \in LayoutDocs
    /\ opts \in LayoutOptions
    /\ alt = Unset
    /\ out = Unset /\ out2 = Unset /\ out3 = Unset
    /\ parsed = NotParsed /\ parsed2 = NotParsed
    /\ text = Unset /\ lexed = NotLexed
    /\ vschema = EmptySchema /\ vresult = NewResult

\* s = TonSerializer(options).serialize(document)
LayoutSerialize ==
    /\ pc = "built"
    /\ out' = Serialize(TonDocument(doc), opts)
    /\ pc' = "serialized"
    /\ UNCHANGED <<text, lexed, doc, opts, parsed, out2, parsed2, out3, alt,
                   vschema, vresult>>

LayoutNext == LayoutSerialize

SpecLayout == LayoutInit /\ [][LayoutNext]_vars

\* the text asked for a node enclosed by depth containers: each member or
\* element on a line of its own behind depth + 1 indent units, the closing
\* brace or bracket behind depth units
RECURSIVE Layout(_, _, _)
Layout(node, depth, o) ==
    LET unit == Repeat(o.indent_char, o.indent_size)
        line(i) == Repeat(unit, depth + 1)
                   \o (IF node.kind = "object"
                       THEN node.keys[i] \o o.property_separator ELSE <<>>)
                   \o Layout(node.vals[i], depth + 1, o)
    IN  IF node.kind = "value" THEN SerializeValue(node, 0, o)
        ELSE IF node.vals = <<>> THEN <<"{", "}">>
        ELSE <<(IF node.kind = "object" THEN "{" ELSE "[")>> \o o.line_ending
             \o Join(o.line_ending, [i \in 1..Len(node.vals) |-> line(i)])
             \o o.line_ending \o Repeat(unit, depth)
             \o <<(IF node.kind = "object" THEN "}" ELSE "]")>>

\* an array of the document holds an object with members, or an array
RECURSIVE ContainerInArray(_)
ContainerInArray(node) ==
    /\ node.kind # "value"
    /\ \E i \in 1..Len(node.vals) :
          \/ node.kind = "array" /\ node.vals[i].kind # "value"
                /\ node.vals[i].vals # <<>>
          \/ ContainerInArray(node.vals[i])

\* C28: Pretty layout.  In pretty output, for every nesting of objects and
\* arrays, each member or element line is indented by the number of
\* containers enclosing it times the indent unit, and each closing brace
\* or bracket by one unit less, at the level of the line that opened its
\* container, for objects nested in arrays as for objects nested in objects.
C28_PrettyLayout ==
    pc = "serialized" => out = Layout(doc, 0, opts)

\* The array holding the object {a: 42}, indent size 2: the member line is
\* behind one unit instead of two and the closing brace behind none.
C28_ObjectInArrayMisindented ==
    /\ pc = "serialized"
    /\ doc = ArrayOf(<<ObjectOf(<<Int42>>)>>)
    /\ opts.indent_size = 2
    /\ out = <<"[", NL, " ", " ", "{", NL, " ", " ", "a", ":", " ", "4", "2", NL,
               "}", NL, "]">>

(***************************************************************************)
(* Formatter (TonFormatter)                                                *)
(***************************************************************************)
\* json.dumps(a, sort_keys=True) == json.dumps(b, sort_keys=True) for two
\* projected values: dicts by key, lists by position, primitives by their
\* rendering (1 and 1.0 are rendered differently)
RECURSIVE DumpsEq(_, _)
DumpsEq(a, b) ==
    IF a.kind # b.kind THEN FALSE
    ELSE IF a.kind = "dict"
    THEN /\ Len(a.keys) = Len(b.keys)
         /\ \A i \in 1..Len(a.keys) :
               /\ IndexOf(b.keys, a.keys[i]) # 0
               /\ DumpsEq(a.vals[i], b.vals[IndexOf(b.keys, a.keys[i])])
    ELSE IF a.kind = "list"
    THEN /\ Len(a.vals) = Len(b.vals)
         /\ \A i \in 1..Len(a.vals) : DumpsEq(a.vals[i], b.vals[i])
    ELSE a.value = b.value

\* TonFormatter.validate(original, formatted): False when either parse fails
FormatterValidate(original, formatted) ==
    /\ Parse(original).err = NoErr
    /\ Parse(formatted).err = NoErr
    /\ DumpsEq(ToJson(Parse(original).root), ToJson(Parse(formatted).root))

(***************************************************************************)
(* Preset machine: a text of literals, objects and arrays nested up to two *)
(* deep is formatted with TonFormatter.compact and the result is compared  *)
(* with the original by TonFormatter.validate.  alt holds the verdict.     *)
(***************************************************************************)
PresetLiterals ==
    {<<"4", "2">>, <<"1", ".", "5">>, <<"0", "x", "1", "F">>, <<SQ, "h", "i", SQ>>,
     <<"t", "r", "u", "e">>, <<"|", "x", "|">>}
PresetObject(m) ==
    <<"{">> \o Join(<<",">>, [i \in 1..Len(m) |-> RTKeys[i] \o <<":">> \o m[i]]) \o <<"}">>
PresetArray(e) == <<"[">> \o Join(<<",">>, e) \o <<"]">>
PresetOnce ==
    {PresetObject(m) : m \in SeqsUpTo(PresetLiterals, MaxWidth) \ {<<>>}}
    \cup {PresetArray(e) : e \in SeqsUpTo(PresetLiterals, MaxWidth) \ {<<>>}}
PresetTwice ==
    {PresetObject(<<x>>) : x \in PresetOnce} \cup {PresetArray(<<x>>) : x \in PresetOnce}
    \cup {<<"P">> \o PresetObject(<<x>>) : x \in PresetLiterals}
PresetWithEmpties ==
    {<<"n", "u", "l", "l">>, <<"{", "}">>, <<"[", "]">>,
     <<"{", "a", ":", "n", "u", "l", "l", "}">>, <<"[", "[", "]", "]">>}
PresetMalformed == {<<"{", "a">>}
PresetTexts ==
    PresetLiterals \cup PresetOnce \cup PresetTwice \cup PresetWithEmpties
    \cup PresetMalformed

PresetInit ==
    /\ pc = "text"
    /\ text \in PresetTexts
    /\ opts = CompactPreset
    /\ alt = FALSE
    /\ lexed = NotLexed
    /\ doc = EmptyNode
    /\ out = Unset /\ out2 = Unset /\ out3 = Unset
    /\ parsed = NotParsed /\ parsed2 = NotParsed
    /\ vschema = EmptySchema /\ vresult = NewResult

\* formatted = TonFormatter.compact(text)
PresetFormat ==
    /\ pc = "text"
    /\ parsed' = Parse(text)
    /\ IF parsed'.err = NoErr
       THEN out' = Serialize(TonDocument(parsed'.root), opts) /\ pc' = "formatted"
       ELSE out' = out /\ pc' = "failed"
    /\ UNCHANGED <<text, lexed, doc, opts, out2, parsed2, out3, alt, vschema, vresult>>

\* ok = TonFormatter().validate(text, formatted)
PresetValidate ==
    /\ pc = "formatted"
    /\ parsed2' = Parse(out)
    /\ alt' = FormatterValidate(text, out)
    /\ pc' = "validated"
    /\ UNCHANGED <<text, lexed, doc, opts, out, parsed, out2, out3, vschema, vresult>>

PresetNext == PresetFormat \/ PresetValidate

SpecPreset == PresetInit /\ [][PresetNext]_vars

\* the document holds no null value and no empty collection
RECURSIVE NoNullsOrEmpties(_)
NoNullsOrEmpties(node) ==
    IF node.kind = "value" THEN node.value # PNone
    ELSE /\ node.vals # <<>>
         /\ \A i \in 1..Len(node.vals) : NoNullsOrEmpties(node.vals[i])

\* C29: Built-in compact preset round trip.  For every text that parses to
\* a document without null values or empty collections, the text written
\* with the compact preset parses again and its JSON projection equals that
\* of the original document: validate(original, formatted) returns true.
C29_CompactPresetRoundTrip ==
    (pc = "validated" /\ NoNullsOrEmpties(parsed.root)) =>
        /\ parsed2.err = NoErr
        /\ alt = TRUE

\* The text {a:42} is written {a = 42.0} by the compact preset; that text
\* does not parse and validate returns false.
C29_PresetSeparatorNotParsed ==
    /\ pc = "validated"
    /\ text = <<"{", "a", ":", "4", "2", "}">>
    /\ out = <<"{", "a", " ", "=", " ", "4", "2", ".", "0", "}">>
    /\ parsed2.err # NoErr
    /\ alt = FALSE

(***************************************************************************)
(* Run machine: a text that begins with a pipe and goes on with up to      *)
(* MaxAfterPipe characters, pipes, identifier characters, a blank and a    *)
(* bracket among them, is handed to the lexer, which scans its first       *)
(* token.  lexed holds the token and the position the scan reached.        *)
(***************************************************************************)
MaxAfterPipe == 5

RunChars == {"a", "b", "1", "_", "|", " ", "]"}
RunTexts == {<<"|">> \o t : t \in SeqsUpTo(RunChars, MaxAfterPipe)}

RunInit ==
    /\ pc = "text"
    /\ text \in RunTexts
    /\ lexed = NotLexed
    /\ alt = Unset
    /\ opts = DefaultOptions
    /\ doc = EmptyNode
    /\ out = Unset /\ out2 = Unset /\ out3 = Unset
    /\ parsed = NotParsed /\ parsed2 = NotParsed
    /\ vschema = EmptySchema /\ vresult = NewResult

\* the first _next_token() of TonLexer(text): _scan_enum at the pipe
RunScan ==
    /\ pc = "text"
    /\ LET r == NextToken(text, StartCursor)
       IN  /\ lexed' = [err |-> r.err, st |-> r.st,
                        tokens |-> IF r.err = NoErr THEN <<r.token>> ELSE <<>>]
           /\ pc' = IF r.err = NoErr THEN "scanned" ELSE "failed"
    /\ UNCHANGED <<text, doc, opts, out, parsed, out2, parsed2, out3, alt,
                   vschema, vresult>>

RunNext == RunScan

SpecRun == RunInit /\ [][RunNext]_vars

\* the non-empty runs between the pipes of s, in order
RECURSIVE RunsBetweenPipes(_, _)
RunsBetweenPipes(s, current) ==
    IF s = <<>> THEN (IF current = <<>> THEN <<>> ELSE <<current>>)
    ELSE IF Head(s) = "|"
    THEN (IF current = <<>> THEN <<>> ELSE <<current>>) \o RunsBetweenPipes(Tail(s), <<>>)
    ELSE RunsBetweenPipes(Tail(s), Append(current, Head(s)))

\* what the scan consumed: the text up to the position it reached
Consumed == SubSeq(text, 1, lexed.st.position)

\* the values of the token emitted, as a list
EmittedValues ==
    IF lexed.tokens[1].type = "ENUM" THEN <<lexed.tokens[1].value.s>>
    ELSE lexed.tokens[1].value.l

\* C30: No silently dropped enum text.  When the enum scan emits a token,
\* the identifier-like runs it consumed are, in order, the values of the
\* ENUM or ENUM_SET token: a run consumed after the last pipe is part of
\* the token's values or the scan fails.
C30_NoDroppedRun ==
    pc = "scanned" =>
        /\ lexed.tokens[1].type \in {"ENUM", "ENUM_SET"}
        /\ EmittedValues = RunsBetweenPipes(Consumed, <<>>)

\* The text |a|b: the scan consumes all four characters and emits the ENUM
\* a; the run b is in no token.
C30_RunAfterLastPipeDropped ==
    /\ pc = "scanned"
    /\ text = <<"|", "a", "|", "b">>
    /\ lexed.st.position = 4
    /\ KindsAndPayloads(lexed.tokens) = <<<<"ENUM", PStr(<<"a">>)>>>>

====
